---------------------------- MODULE Spec2Model ----------------------------
(***************************************************************************)
(* Verification model of the easegress gateway core:                       *)
(*   - the HTTP server runtime state machine, Status() and Close()         *)
(*     (pkg/object/httpserver/runtime.go),                                 *)
(*   - the DurationSampler (the sampler package in the same file),         *)
(*   - the gateway cluster: construction, stop, dispatcher, scatter-gather *)
(*     recording and membership queries                                    *)
(*     (pkg/cluster/gateway/gateway.go),                                   *)
(*   - the OpLog and the Reader's sync loop, after the design document.    *)
(* Each part has its own specification; the variables of the other parts   *)
(* stay at their initial values.                                           *)
(***************************************************************************)
EXTENDS Integers, Sequences, FiniteSets, TLC

(***************************************************************************)
(* Bounds of the model.                                                    *)
(***************************************************************************)
\* generations of the server: no event that can start a server is sent
\* once roundNum plus the events waiting reaches MaxRound
MaxRound == 3
\* number of callers of runtime.Close()
MaxClosers == 1
\* number of events waiting in the event channel (at most its capacity)
MaxPending == 2
\* number of calls of GatewayCluster.Stop()
MaxStops == 2
\* number of responses a future delivers
MaxResponses == 3
\* number of events the basis cluster delivers to the dispatcher
MaxEvents == 2
\* number of operations the Writer holds
MaxSeqNo == 3
\* largest value of OPLogMaxSeqGapToPull and of OPLogPullMaxCountOnce
MaxConf == 2
\* number of direct Append calls
MaxAppends == 3
\* number of members of the cluster
MaxMembers == 3
\* number of callers of runtime.Close() where Close() alone is studied
MaxCloseCalls == 2
\* number of durations recorded by a DurationSampler between two Resets
MaxSamples == 2
\* number of concurrent callers of DurationSampler.Update
MaxUpdaters == 3

(***************************************************************************)
(* Program constants.                                                      *)
(***************************************************************************)
\* eventChan: make(chan interface{}, 10)
EventChanCap == 10

stateNil == "nil"
stateFailed == "failed"
stateRunning == "running"
stateClosed == "closed"

\* errNil = fmt.Errorf("")
errNil == ""

(***************************************************************************)
(* The HTTP server Spec: the fields runtime.go reads.  Tracing, IPFilter   *)
(* and Rules are references; "nil" is the nil reference.                   *)
(***************************************************************************)
BaseSpec ==
  [ Port |-> 80, HTTPS |-> FALSE, HTTP3 |-> FALSE, KeepAlive |-> TRUE,
    KeepAliveTimeout |-> "", MaxConnections |-> 100, CacheSize |-> 0,
    XForwardedFor |-> FALSE, Tracing |-> "nil", IPFilter |-> "nil",
    Rules |-> "R1" ]

\* The specs a Reload may carry: the base spec, specs that differ from it in
\* one field that is not among the six zeroed by needRestartServer, one that
\* differs in the routing rules only and one that differs in all six.
SpecInputs ==
  { BaseSpec,
    [BaseSpec EXCEPT !.Port = 81],
    [BaseSpec EXCEPT !.HTTP3 = TRUE],
    [BaseSpec EXCEPT !.HTTPS = TRUE],
    [BaseSpec EXCEPT !.Rules = "R2"],
    [BaseSpec EXCEPT !.MaxConnections = 200, !.CacheSize = 10,
                     !.XForwardedFor = TRUE, !.Tracing = "T1",
                     !.IPFilter = "F1", !.Rules = "R2"] }

\* Mode: the mode of a member
WriteMode == "Write"
ReadMode == "Read"
NilMode == "Nil"

\* MessageType: the first byte of a request payload
MessageTypes ==
  { "querySeqMessage", "queryMemberMessage", "queryMembersListMessage",
    "queryGroupMessage", "operationMessage", "operationRelayMessage",
    "retrieveMessage", "retrieveRelayMessage", "statMessage",
    "statRelayMessage", "opLogPullMessage" }

\* the payloads of request events: empty, or a message type or a byte that
\* is no message type followed by a body
RequestPayloads ==
  { << >> } \cup { << b, "body" >> : b \in MessageTypes \cup {"otherByte"} }

\* the nodes of the cluster, and those that may answer a request
Nodes == {"A", "B", "C"}

\* a nil []byte: a book slot not filled yet, or a response without payload
NilBytes == "nil"

\* payloads a response may carry
Payloads == {NilBytes, "p1", "p2"}

\* the nil *Spec
NilSpec == [nil |-> TRUE]

\* the nil *limitlistener.LimitListener
NilListener == [nil |-> TRUE]

VARIABLES
  \* ---- runtime struct (runtime.go) ----
  spec,           \* r.spec: NilSpec or a Spec
  server,         \* r.server: 0 (nil) or the index of an HTTP/1+2 server
  server3,        \* r.server3: 0 (nil) or the index of an HTTP/3 server
  mux,            \* r.mux: [superSpec, closed]
  roundNum,       \* r.roundNum
  eventChan,      \* r.eventChan: the buffered channel, a sequence of events
  state,          \* r.state
  err,            \* r.err: the error message, "" for errNil
  limitListener,  \* r.limitListener: NilListener or [gen, max]
  \* ---- objects and goroutines of the runtime ----
  servers,        \* every server object created, by generation
  fsmPc,          \* the fsm goroutine: "running" or "exited"
  tickerPc,       \* the checkFailed goroutine: "wait", "send" or "stopped"
  closePc,        \* each Close() caller: "idle", "wait" or "returned"
  done,           \* the done channels that have been closed
  lastEvent,      \* the event the fsm handled last, with the round it met
  \* ---- GatewayCluster (gateway.go) ----
  stopped,        \* gc.stopped
  stopChanClosed, \* gc.stopChan has been closed
  stopChanCloses, \* executions of close(gc.stopChan)
  gcPanicked,     \* the process panicked (close of a closed channel)
  basisState,     \* gc.cluster: "alive", "left" or "gone" (Stopped() fired)
  logClosed,      \* gc.log has been closed
  stopLog,        \* the internalStop calls made: what each met and returned
  watcherPc,      \* the goroutine watching gc.cluster.Stopped()
  \* ---- one recordResp call ----
  book,           \* membersRespBook
  memberRespCount,
  futureClosed,   \* the future closed its response stream (timeout)
  respDelivered,  \* responses the future has delivered
  rrPc,           \* "loop", "done" (loop condition false) or "stopped"
  \* ---- a Status() call racing with the fsm (runtime.go) ----
  fsmStores,      \* the stores to r.state and r.err the running handler
                  \* has still to make, in program order
  statusPc,       \* the Status() caller: "idle", "state", "error", "returned"
  statusOut,      \* the Status being built: Health, State, Error
  lastErr,        \* the message of the most recent listen or serve error
  \* ---- GatewayCluster.dispatch (gateway.go) ----
  mode,           \* gc.mode
  eventStream,    \* gc.eventStream: the events waiting
  arrived,        \* number of events the basis cluster has delivered
  dispatchPc,     \* the dispatch goroutine: "loop" or "stopped"
  dispatched,     \* the request events dispatch has received, each with
                  \* the handler it started ("none" if it started none)
  responded,      \* the request events that were responded to
  \* ---- what the future of a recordResp call has delivered ----
  respLog,        \* the responses received, in order
  \* ---- the operation log of a Reader and its sync loop ----
  conf,           \* gc.conf: OPLogMaxSeqGapToPull, OPLogPullMaxCountOnce
  writerMaxSeq,   \* MaxSeq of the OpLog of the group's Writer
  oplog,          \* gc.log: the sequence numbers the OpLog holds
  applied,        \* the sequence numbers the model's Apply was invoked with
  syncPc,         \* syncOpLogLoop: "sleep", "append" or "apply"
  syncBatch,      \* the pulled operations still to append
  syncNew,        \* the operations of this batch appended, still to apply
  pulls,          \* successful pulls of the sync loop
  relayPc,        \* per operation of the Writer, its OperationRelay handler
                  \* on the Reader: "sent", "appended" or "done"
  appendLog,      \* the Append calls made directly, with what they met
  \* ---- a call of NewGatewayCluster ----
  modIsNil,       \* the argument mod is nil
  advertise,      \* option.ClusterHost, the advertise address
  created,        \* whether the call has returned, the error it returned
                  \* and the goroutines it started
  \* ---- the membership queries ----
  members,        \* gc.cluster.Members(): the member list, in gossip order
  answer,         \* the last query made: its name, arguments and result
  \* ---- DurationSampler (the sampler package in runtime.go) ----
  count,          \* ds.count
  durations,      \* ds.durations: slot index -> counter; a slot that is
                  \* not in the domain holds 0
  indexPanic,     \* an Update indexed ds.durations out of range
  population,     \* the durations recorded since the last Reset:
                  \* duration -> number of Update calls made with it
  reported,       \* the result of the Percentiles() call made since the
                  \* last Update or Reset, << >> if there is none
  updaters        \* the concurrent callers of Update: pc, d and idx

rtVars == << spec, server, server3, mux, roundNum, eventChan, state, err,
             limitListener, servers, fsmPc, tickerPc, closePc, done,
             lastEvent >>

gcVars == << stopped, stopChanClosed, stopChanCloses, gcPanicked, basisState,
             logClosed, stopLog, watcherPc >>

rrVars == << book, memberRespCount, futureClosed, respDelivered, rrPc >>

stVars == << fsmStores, statusPc, statusOut, lastErr >>

\* the variables of the parts added to the runtime and the cluster's stop
dpVars == << mode, eventStream, arrived, dispatchPc, dispatched, responded >>

rlVars == << respLog >>

olVars == << conf, writerMaxSeq, oplog, applied, syncPc, syncBatch, syncNew,
             pulls, relayPc, appendLog >>

ncVars == << modIsNil, advertise, created >>

mbVars == << members, answer >>

smVars == << count, durations, indexPanic, population, reported, updaters >>

partVars == << stVars, dpVars, rlVars, olVars, ncVars, mbVars, smVars >>

vars == << rtVars, gcVars, rrVars, partVars >>

\* what the steps of a Status() call and of the fsm's stores leave alone
stOthers == << gcVars, rrVars, dpVars, rlVars, olVars, ncVars, mbVars,
              smVars >>

\* what the steps of the dispatcher leave alone
dpOthers == << rtVars, gcVars, rrVars, stVars, rlVars, olVars, ncVars,
              mbVars, smVars >>

Closers == 1..MaxClosers

(***************************************************************************)
(* newRuntime                                                              *)
(***************************************************************************)
newRuntime ==
  /\ spec = NilSpec
  /\ server = 0
  /\ server3 = 0
  /\ mux = [superSpec |-> NilSpec, closed |-> FALSE]
  /\ roundNum = 0
  /\ eventChan = << >>
  /\ state = stateNil
  /\ err = errNil
  /\ limitListener = NilListener
  /\ servers = << >>
  /\ fsmPc = "running"
  /\ tickerPc = "wait"
  /\ closePc = [c \in Closers |-> "idle"]
  /\ done = {}
  /\ lastEvent = [type |-> "none", round |-> 0]


(***************************************************************************)
(* Helpers of the runtime.                                                 *)
(***************************************************************************)
\* room in the buffered event channel: a send blocks while it is full
chanHasRoom == Len(eventChan) < EventChanCap /\ Len(eventChan) < MaxPending

\* the bound on generations (MaxRound): every waiting event may start one
\* more server
mayStart ==
  roundNum + Len(eventChan) + (IF tickerPc = "send" THEN 1 ELSE 0) < MaxRound

\* a listener of server object sv accepts connections
listenerOpen(sv) == sv.st = "open"

\* fmt.Errorf of a listen or serve error of generation n
errMsg(kind, n) == kind \o ":" \o ToString(n)

needRestartServer_hotRules(cur, nextSpec) ==
  LET x == [cur EXCEPT !.MaxConnections = 0, !.CacheSize = 0,
                       !.XForwardedFor = FALSE, !.Tracing = "nil",
                       !.IPFilter = "nil"]
      y == [nextSpec EXCEPT !.MaxConnections = 0, !.CacheSize = 0,
                            !.XForwardedFor = FALSE, !.Tracing = "nil",
                            !.IPFilter = "nil"]
  IN  x # y

\* runtime.needRestartServer: compare copies with the six fields zeroed
needRestartServer(cur, nextSpec) ==
  LET x == [cur EXCEPT !.MaxConnections = 0, !.CacheSize = 0,
                       !.XForwardedFor = FALSE, !.Tracing = "nil",
                       !.IPFilter = "nil", !.Rules = "nil"]
      y == [nextSpec EXCEPT !.MaxConnections = 0, !.CacheSize = 0,
                            !.XForwardedFor = FALSE, !.Tracing = "nil",
                            !.IPFilter = "nil", !.Rules = "nil"]
  IN  x # y

\* runtime.closeServer on the server objects svs: the HTTP/3 server if
\* r.server3 is set (and nothing else), otherwise the HTTP/1+2 server
closeServer(svs) ==
  IF server3 # 0
    THEN [svs EXCEPT ![server3].st = "closed"]
    ELSE IF server # 0
           THEN [svs EXCEPT ![server].st = "closed"]
           ELSE svs

\* gnet.Listen("tcp", port) can succeed only if none of the runtime's own
\* HTTP/1+2 listeners still holds the port
canListen(svs, port) ==
  \A i \in 1..Len(svs) :
     ~(svs[i].kind = "h1" /\ svs[i].st = "open" /\ svs[i].port = port)

startServer_countsListening(s, svs, ll, listenOk) ==
  /\ roundNum' = IF s.HTTP3 \/ listenOk THEN roundNum + 1 ELSE roundNum
  /\ IF s.HTTP3
       THEN /\ server3' = roundNum + 1
            /\ servers' = Append(svs, [kind |-> "h3", port |-> s.Port,
                                       st |-> "starting"])
            /\ state' = stateRunning
            /\ err' = errNil
            /\ limitListener' = ll
            /\ UNCHANGED server
       ELSE /\ server' = Len(svs) + 1
            /\ UNCHANGED server3
            /\ IF listenOk
                 THEN /\ servers' = Append(svs, [kind |-> "h1",
                                    port |-> s.Port, st |-> "open"])
                      /\ limitListener' = [gen |-> Len(svs) + 1,
                                           max |-> s.MaxConnections]
                      /\ state' = stateRunning
                      /\ err' = errNil
                 ELSE /\ servers' = Append(svs, [kind |-> "h1",
                                    port |-> s.Port, st |-> "nolisten"])
                      /\ limitListener' = ll
                      /\ state' = stateFailed
                      /\ err' = errMsg("listen", Len(svs) + 1)

\* runtime.startServer with r.spec = s, on the server objects svs and with
\* r.limitListener = ll; listenOk is the outcome of gnet.Listen (HTTP/1+2)
startServer(s, svs, ll, listenOk) ==
  /\ roundNum' = roundNum + 1
  /\ IF s.HTTP3
       THEN \* startHTTP3Server: ListenAndServe runs in its goroutine
            /\ server3' = roundNum + 1
            /\ servers' = Append(svs, [kind |-> "h3", port |-> s.Port,
                                       st |-> "starting"])
            /\ state' = stateRunning
            /\ err' = errNil
            /\ limitListener' = ll
            /\ UNCHANGED server
       ELSE \* startHTTP1And2Server
            /\ server' = roundNum + 1
            /\ UNCHANGED server3
            /\ IF listenOk
                 THEN /\ servers' = Append(svs, [kind |-> "h1",
                                    port |-> s.Port, st |-> "open"])
                      /\ limitListener' = [gen |-> roundNum + 1,
                                           max |-> s.MaxConnections]
                      /\ state' = stateRunning
                      /\ err' = errNil
                 ELSE /\ servers' = Append(svs, [kind |-> "h1",
                                    port |-> s.Port, st |-> "nolisten"])
                      /\ limitListener' = ll
                      /\ state' = stateFailed
                      /\ err' = errMsg("listen", roundNum + 1)

\* limitListener.SetMaxConnection
SetMaxConnection(l, n) == [l EXCEPT !.max = n]

(***************************************************************************)
(* Senders of events.                                                      *)
(***************************************************************************)
\* the supervisor sends eventReload
SendReload(s) ==
  /\ mayStart
  /\ chanHasRoom
  /\ eventChan' = Append(eventChan, [type |-> "Reload", nextSpec |-> s])
  /\ UNCHANGED << spec, server, server3, mux, roundNum, state, err,
                  limitListener, servers, fsmPc, tickerPc, closePc, done, lastEvent >>

\* runtime.Close: send eventClose
CloseSend(c) ==
  /\ closePc[c] = "idle"
  /\ chanHasRoom
  /\ eventChan' = Append(eventChan, [type |-> "Close", done |-> c])
  /\ closePc' = [closePc EXCEPT ![c] = "wait"]
  /\ UNCHANGED << spec, server, server3, mux, roundNum, state, err,
                  limitListener, servers, fsmPc, tickerPc, done, lastEvent >>

\* runtime.Close: <-done
CloseReturn(c) ==
  /\ closePc[c] = "wait"
  /\ c \in done
  /\ closePc' = [closePc EXCEPT ![c] = "returned"]
  /\ UNCHANGED << spec, server, server3, mux, roundNum, eventChan, state,
                  err, limitListener, servers, fsmPc, tickerPc, done, lastEvent >>

\* runtime.checkFailed: a tick that reads stateFailed
TickerSeesFailed ==
  /\ tickerPc = "wait"
  /\ state = stateFailed
  /\ roundNum < MaxRound
  /\ tickerPc' = "send"
  /\ UNCHANGED << spec, server, server3, mux, roundNum, eventChan, state,
                  err, limitListener, servers, fsmPc, closePc, done, lastEvent >>

\* runtime.checkFailed: r.eventChan <- &eventCheckFailed{}
TickerSend ==
  /\ tickerPc = "send"
  /\ chanHasRoom
  /\ eventChan' = Append(eventChan, [type |-> "CheckFailed"])
  /\ tickerPc' = "wait"
  /\ UNCHANGED << spec, server, server3, mux, roundNum, state, err,
                  limitListener, servers, fsmPc, closePc, done, lastEvent >>

\* runtime.checkFailed: a tick that reads stateClosed
TickerSeesClosed ==
  /\ tickerPc = "wait"
  /\ state = stateClosed
  /\ tickerPc' = "stopped"
  /\ UNCHANGED << spec, server, server3, mux, roundNum, eventChan, state,
                  err, limitListener, servers, fsmPc, closePc, done, lastEvent >>

\* the serving goroutine of an HTTP/3 server: ListenAndServe starts to listen
H3ListenOk(i) ==
  /\ servers[i].st = "starting"
  /\ servers' = [servers EXCEPT ![i].st = "open"]
  /\ UNCHANGED << spec, server, server3, mux, roundNum, eventChan, state,
                  err, limitListener, fsmPc, tickerPc, closePc, done, lastEvent >>

\* the serving goroutine of server i: ListenAndServe, Serve or ServeTLS
\* returns an error other than ErrServerClosed; its listener is gone
ServeFail(i) ==
  /\ servers[i].st \in {"starting", "open"}
  /\ chanHasRoom
  /\ servers' = [servers EXCEPT ![i].st = "failed"]
  /\ eventChan' = Append(eventChan,
        [type |-> "ServeFailed", roundNum |-> i, err |-> errMsg("serve", i)])
  /\ UNCHANGED << spec, server, server3, mux, roundNum, state, err,
                  limitListener, fsmPc, tickerPc, closePc, done, lastEvent >>


(***************************************************************************)
(* The fsm goroutine: one action per event handler.                        *)
(***************************************************************************)
\* for e := range r.eventChan, switch e.(type)
fsmReceives(type) ==
  /\ fsmPc = "running"
  /\ eventChan # << >>
  /\ Head(eventChan).type = type

staleServeFailed_never(e) == FALSE

\* runtime.handleEventServeFailed: r.roundNum > e.roundNum
staleServeFailed(e) == roundNum > e.roundNum

handleEventCheckFailed_ignores ==
  /\ fsmReceives("CheckFailed")
  /\ eventChan' = Tail(eventChan)
  /\ lastEvent' = [type |-> "CheckFailed", round |-> roundNum]
  /\ UNCHANGED << roundNum, server, server3, servers, state, err,
                  limitListener >>
  /\ UNCHANGED << spec, mux, fsmPc, tickerPc, closePc, done >>

handleEventCheckFailed_always ==
  /\ fsmReceives("CheckFailed")
  /\ eventChan' = Tail(eventChan)
  /\ lastEvent' = [type |-> "CheckFailed", round |-> roundNum]
  /\ IF spec # NilSpec
       THEN \E listenOk \in BOOLEAN :
               /\ listenOk => canListen(servers, spec.Port)
               /\ startServer(spec, servers, limitListener, listenOk)
       ELSE UNCHANGED << roundNum, server, server3, servers, state, err,
                         limitListener >>
  /\ UNCHANGED << spec, mux, fsmPc, tickerPc, closePc, done >>

\* runtime.handleEventCheckFailed
handleEventCheckFailed ==
  /\ fsmReceives("CheckFailed")
  /\ eventChan' = Tail(eventChan)
  /\ lastEvent' = [type |-> "CheckFailed", round |-> roundNum]
  /\ IF state = stateFailed
       THEN \E listenOk \in BOOLEAN :
               /\ listenOk => canListen(servers, spec.Port)
               /\ startServer(spec, servers, limitListener, listenOk)
       ELSE UNCHANGED << roundNum, server, server3, servers, state, err,
                         limitListener >>
  /\ UNCHANGED << spec, mux, fsmPc, tickerPc, closePc, done >>

handleEventServeFailed_closes ==
  /\ fsmReceives("ServeFailed")
  /\ eventChan' = Tail(eventChan)
  /\ lastEvent' = [type |-> "ServeFailed", round |-> roundNum,
                   roundNum |-> Head(eventChan).roundNum]
  /\ IF staleServeFailed(Head(eventChan))
       THEN UNCHANGED << state, err >>
       ELSE /\ state' = stateClosed
            /\ err' = Head(eventChan).err
  /\ UNCHANGED << spec, server, server3, mux, roundNum, limitListener,
                  servers, fsmPc, tickerPc, closePc, done >>

\* runtime.handleEventServeFailed
handleEventServeFailed ==
  /\ fsmReceives("ServeFailed")
  /\ eventChan' = Tail(eventChan)
  /\ lastEvent' = [type |-> "ServeFailed", round |-> roundNum,
                   roundNum |-> Head(eventChan).roundNum]
  /\ IF staleServeFailed(Head(eventChan))
       THEN UNCHANGED << state, err >>
       ELSE /\ state' = stateFailed
            /\ err' = Head(eventChan).err
  /\ UNCHANGED << spec, server, server3, mux, roundNum, limitListener,
                  servers, fsmPc, tickerPc, closePc, done >>

\* runtime.reload (called by handleEventReload)
reload(nextSpec) ==
  LET ll == IF nextSpec # NilSpec /\ limitListener # NilListener
              THEN SetMaxConnection(limitListener, nextSpec.MaxConnections)
              ELSE limitListener
  IN
  /\ mux' = [mux EXCEPT !.superSpec = nextSpec]
  /\ CASE spec = NilSpec /\ nextSpec = NilSpec ->
            /\ limitListener' = ll
            /\ UNCHANGED << spec, roundNum, server, server3, servers, state,
                            err >>
       [] spec = NilSpec /\ nextSpec # NilSpec ->
            /\ spec' = nextSpec
            /\ \E listenOk \in BOOLEAN :
                  /\ listenOk => canListen(servers, nextSpec.Port)
                  /\ startServer(nextSpec, servers, ll, listenOk)
       [] spec # NilSpec /\ nextSpec = NilSpec ->
            /\ spec' = NilSpec
            /\ servers' = closeServer(servers)
            /\ limitListener' = ll
            /\ UNCHANGED << roundNum, server, server3, state, err >>
       [] spec # NilSpec /\ nextSpec # NilSpec ->
            IF needRestartServer(spec, nextSpec)
              THEN /\ spec' = nextSpec
                   /\ \E listenOk \in BOOLEAN :
                         /\ listenOk =>
                              canListen(closeServer(servers), nextSpec.Port)
                         /\ startServer(nextSpec, closeServer(servers), ll,
                                        listenOk)
              ELSE /\ spec' = nextSpec
                   /\ limitListener' = ll
                   /\ UNCHANGED << roundNum, server, server3, servers, state,
                                   err >>

\* runtime.handleEventReload
handleEventReload ==
  /\ fsmReceives("Reload")
  /\ eventChan' = Tail(eventChan)
  /\ lastEvent' = [type |-> "Reload", round |-> roundNum,
                   hadSpec |-> spec # NilSpec,
                   restart |-> IF spec # NilSpec
                                 THEN needRestartServer(spec,
                                          Head(eventChan).nextSpec)
                                 ELSE FALSE]
  /\ reload(Head(eventChan).nextSpec)
  /\ UNCHANGED << fsmPc, tickerPc, closePc, done >>

handleEventClose_noReturn ==
  /\ fsmReceives("Close")
  /\ eventChan' = Tail(eventChan)
  /\ lastEvent' = [type |-> "Close", round |-> roundNum]
  /\ state' = stateClosed
  /\ servers' = closeServer(servers)
  /\ mux' = [mux EXCEPT !.closed = TRUE]
  /\ done' = done \cup {Head(eventChan).done}
  /\ UNCHANGED << spec, server, server3, roundNum, err, limitListener,
                  fsmPc, tickerPc, closePc >>

\* runtime.handleEventClose, and the return of fsm after it
handleEventClose ==
  /\ fsmReceives("Close")
  /\ eventChan' = Tail(eventChan)
  /\ lastEvent' = [type |-> "Close", round |-> roundNum]
  /\ state' = stateClosed
  /\ servers' = closeServer(servers)
  /\ mux' = [mux EXCEPT !.closed = TRUE]
  /\ done' = done \cup {Head(eventChan).done}
  /\ fsmPc' = "exited"
  /\ UNCHANGED << spec, server, server3, roundNum, err, limitListener,
                  tickerPc, closePc >>

\* runtime.fsm: the handler of the received event
fsm ==
  \/ handleEventCheckFailed
  \/ handleEventServeFailed
  \/ handleEventReload
  \/ handleEventClose


(***************************************************************************)
(* The runtime: initial state, next-state relation, specification.         *)
(***************************************************************************)
\* the gateway cluster and recordResp, not started
gcIdle ==
  /\ stopped = FALSE
  /\ stopChanClosed = FALSE
  /\ stopChanCloses = 0
  /\ gcPanicked = FALSE
  /\ basisState = "alive"
  /\ logClosed = FALSE
  /\ stopLog = << >>
  /\ watcherPc = "select"
  /\ book = [n \in {} |-> NilBytes]
  /\ memberRespCount = 0
  /\ futureClosed = FALSE
  /\ respDelivered = 0
  /\ rrPc = "loop"

\* no Status() call is in progress and no handler is between two stores
stIdle ==
  /\ fsmStores = << >>
  /\ statusPc = "idle"
  /\ statusOut = [Health |-> errNil, State |-> stateNil, Error |-> errNil,
                  raised |-> errNil]
  /\ lastErr = errNil

\* the dispatcher has received nothing
dpIdle ==
  /\ eventStream = << >>
  /\ arrived = 0
  /\ dispatchPc = "loop"
  /\ dispatched = << >>
  /\ responded = {}

\* the parts that take no step in a specification of another part
\* no membership query is studied
mbIdle ==
  /\ members = << >>
  /\ answer = [query |-> "none"]

\* the callers of DurationSampler.Update
Updaters == 1..MaxUpdaters

\* NewDurationSampler: no duration recorded, no Update in progress
smIdle ==
  /\ count = 0
  /\ durations = << >>
  /\ indexPanic = FALSE
  /\ population = << >>
  /\ reported = << >>
  /\ updaters = [c \in Updaters |-> [pc |-> "idle", d |-> 0, idx |-> 0]]

\* NewGatewayCluster has not returned
notCreated ==
  [returned |-> FALSE, err |-> "nil", watcher |-> FALSE, dispatch |-> FALSE,
   syncOpLogLoop |-> FALSE]

\* no call of NewGatewayCluster is studied
ncIdle ==
  /\ modIsNil = FALSE
  /\ advertise = "10.0.0.5"
  /\ created = notCreated

\* an empty OpLog, and a sync loop that has not pulled yet
olIdle ==
  /\ writerMaxSeq = 0
  /\ oplog = {}
  /\ applied = << >>
  /\ syncPc = "sleep"
  /\ syncBatch = << >>
  /\ syncNew = << >>
  /\ pulls = 0
  /\ relayPc = << >>
  /\ appendLog = << >>

partsIdle ==
  /\ stIdle
  /\ mode = WriteMode /\ dpIdle
  /\ respLog = << >>
  /\ conf = [OPLogMaxSeqGapToPull |-> 1, OPLogPullMaxCountOnce |-> 1]
  /\ olIdle
  /\ ncIdle
  /\ mbIdle
  /\ smIdle

Init == newRuntime /\ gcIdle /\ partsIdle

\* the gateway cluster takes no part in the runtime's steps
gcUnchanged == UNCHANGED << gcVars, rrVars, partVars >>

Next ==
  \/ (\E s \in SpecInputs : SendReload(s)) /\ gcUnchanged
  \/ (\E c \in Closers : CloseSend(c)) /\ gcUnchanged
  \/ (\E c \in Closers : CloseReturn(c)) /\ gcUnchanged
  \/ TickerSeesFailed /\ gcUnchanged
  \/ TickerSend /\ gcUnchanged
  \/ TickerSeesClosed /\ gcUnchanged
  \/ (\E i \in 1..Len(servers) : H3ListenOk(i)) /\ gcUnchanged
  \/ (\E i \in 1..Len(servers) : ServeFail(i)) /\ gcUnchanged
  \/ handleEventCheckFailed /\ gcUnchanged
  \/ handleEventServeFailed /\ gcUnchanged
  \/ handleEventReload /\ gcUnchanged
  \/ handleEventClose /\ gcUnchanged

Spec == Init /\ [][Next]_vars

\* The specs a Reload carries where only the retry after a failure is
\* studied: the base spec (no restart when reloaded twice) and one that
\* forces a restart and changes the kind of server.
RetryInputs ==
  { BaseSpec,
    [BaseSpec EXCEPT !.HTTP3 = TRUE] }

NextRetry ==
  \/ (\E s \in RetryInputs : SendReload(s)) /\ gcUnchanged
  \/ (\E c \in Closers : CloseSend(c)) /\ gcUnchanged
  \/ (\E c \in Closers : CloseReturn(c)) /\ gcUnchanged
  \/ TickerSeesFailed /\ gcUnchanged
  \/ TickerSend /\ gcUnchanged
  \/ TickerSeesClosed /\ gcUnchanged
  \/ (\E i \in 1..Len(servers) : H3ListenOk(i)) /\ gcUnchanged
  \/ (\E i \in 1..Len(servers) : ServeFail(i)) /\ gcUnchanged
  \/ handleEventCheckFailed /\ gcUnchanged
  \/ handleEventServeFailed /\ gcUnchanged
  \/ handleEventReload /\ gcUnchanged
  \/ handleEventClose /\ gcUnchanged

\* The scheduling the runtime relies on: the fsm goroutine keeps receiving
\* while events wait, the ticker keeps ticking, and a sender blocked on the
\* channel is served once there is room (Go queues blocked senders first in,
\* first out).
FairSpec ==
  /\ Init
  /\ [][NextRetry]_vars
  /\ WF_vars(fsm /\ gcUnchanged)
  /\ WF_vars(TickerSeesFailed /\ gcUnchanged)
  /\ SF_vars(TickerSend /\ gcUnchanged)

\* The runtime with several callers of Close(), sequential or concurrent.
CloseCallers == 1..MaxCloseCalls

\* newRuntime, with the callers of Close() not yet calling
InitClose ==
  /\ spec = NilSpec
  /\ server = 0
  /\ server3 = 0
  /\ mux = [superSpec |-> NilSpec, closed |-> FALSE]
  /\ roundNum = 0
  /\ eventChan = << >>
  /\ state = stateNil
  /\ err = errNil
  /\ limitListener = NilListener
  /\ servers = << >>
  /\ fsmPc = "running"
  /\ tickerPc = "wait"
  /\ closePc = [c \in CloseCallers |-> "idle"]
  /\ done = {}
  /\ lastEvent = [type |-> "none", round |-> 0]
  /\ gcIdle
  /\ partsIdle

NextClose ==
  \/ (\E s \in RetryInputs : SendReload(s)) /\ gcUnchanged
  \/ (\E c \in CloseCallers : CloseSend(c)) /\ gcUnchanged
  \/ (\E c \in CloseCallers : CloseReturn(c)) /\ gcUnchanged
  \/ TickerSeesFailed /\ gcUnchanged
  \/ TickerSend /\ gcUnchanged
  \/ TickerSeesClosed /\ gcUnchanged
  \/ (\E i \in 1..Len(servers) : H3ListenOk(i)) /\ gcUnchanged
  \/ (\E i \in 1..Len(servers) : ServeFail(i)) /\ gcUnchanged
  \/ handleEventCheckFailed /\ gcUnchanged
  \/ handleEventServeFailed /\ gcUnchanged
  \/ handleEventReload /\ gcUnchanged
  \/ handleEventClose /\ gcUnchanged

\* The scheduling of FairSpec, and for the callers of Close(): a caller
\* blocked on the send is served once the channel has room, and a caller
\* waiting on its done channel goes on once that channel is closed.
FairSpecClose ==
  /\ InitClose
  /\ [][NextClose]_vars
  /\ WF_vars(fsm /\ gcUnchanged)
  /\ WF_vars(TickerSeesFailed /\ gcUnchanged)
  /\ SF_vars(TickerSend /\ gcUnchanged)
  /\ \A c \in CloseCallers : SF_vars(CloseSend(c) /\ gcUnchanged)
  /\ \A c \in CloseCallers : WF_vars(CloseReturn(c) /\ gcUnchanged)

(***************************************************************************)
(* GatewayCluster: Stop, internalStop and the goroutine that watches the   *)
(* basis cluster.  statusLock is held from the first to the last line of   *)
(* internalStop, so a call is one step.                                    *)
(***************************************************************************)
\* the result of an internalStop call that closes stopChan and goes on
stopOutcome(stopBasis, leaveOk, basisStopOk, logCloseOk) ==
  IF stopBasis /\ ~leaveOk THEN "leave error"
  ELSE IF stopBasis /\ ~basisStopOk THEN "stop error"
  ELSE IF ~logCloseOk THEN "close error"
  ELSE "nil"

\* GatewayCluster.internalStop; leaveOk, basisStopOk and logCloseOk are the
\* outcomes of gc.cluster.Leave(), gc.cluster.Stop() and gc.log.Close()
internalStop(stopBasis, leaveOk, basisStopOk, logCloseOk) ==
  LET met == [stopped |-> stopped, stopChanClosed |-> stopChanClosed,
              stopBasis |-> stopBasis]
      res == stopOutcome(stopBasis, leaveOk, basisStopOk, logCloseOk)
  IN
  IF stopped
    THEN /\ stopLog' = Append(stopLog, met @@ [result |-> "already stopped"])
         /\ UNCHANGED << stopped, stopChanClosed, stopChanCloses, gcPanicked,
                         basisState, logClosed >>
    ELSE IF stopChanClosed
      THEN \* close of a closed channel
           /\ stopChanCloses' = stopChanCloses + 1
           /\ gcPanicked' = TRUE
           /\ stopLog' = Append(stopLog, met @@ [result |-> "panic"])
           /\ UNCHANGED << stopped, stopChanClosed, basisState, logClosed >>
      ELSE /\ stopChanClosed' = TRUE
           /\ stopChanCloses' = stopChanCloses + 1
           /\ UNCHANGED gcPanicked
           /\ stopLog' = Append(stopLog, met @@ [result |-> res])
           /\ basisState' =
                IF ~stopBasis \/ res = "leave error" THEN basisState
                ELSE IF res = "stop error" THEN "left"
                ELSE "gone"
           /\ logClosed' = (res = "nil")
           /\ stopped' = (res = "nil")

\* GatewayCluster.Stop, called by the owner of the cluster
Stop ==
  /\ ~gcPanicked
  /\ Len(SelectSeq(stopLog, LAMBDA c : c.stopBasis)) < MaxStops
  /\ \E leaveOk, basisStopOk, logCloseOk \in BOOLEAN :
        internalStop(TRUE, leaveOk, basisStopOk, logCloseOk)
  /\ UNCHANGED watcherPc

\* GatewayCluster.Stop whose Leave, Stop and Close all succeed
StopSucceeds ==
  /\ ~stopped
  /\ internalStop(TRUE, TRUE, TRUE, TRUE)
  /\ UNCHANGED watcherPc

\* the basis cluster is gone by itself: gc.cluster.Stopped() fires
BasisGone ==
  /\ ~gcPanicked
  /\ basisState = "alive"
  /\ basisState' = "gone"
  /\ UNCHANGED << stopped, stopChanClosed, stopChanCloses, gcPanicked,
                  logClosed, stopLog, watcherPc >>

\* the goroutine of NewGatewayCluster: case <-gc.stopChan
WatcherSeesStopChan ==
  /\ ~gcPanicked
  /\ watcherPc = "select"
  /\ stopChanClosed
  /\ watcherPc' = "returned"
  /\ UNCHANGED << stopped, stopChanClosed, stopChanCloses, gcPanicked,
                  basisState, logClosed, stopLog >>

\* the goroutine of NewGatewayCluster: case <-gc.cluster.Stopped()
WatcherSeesBasisGone ==
  /\ ~gcPanicked
  /\ watcherPc = "select"
  /\ basisState = "gone"
  /\ watcherPc' = "returned"
  /\ \E logCloseOk \in BOOLEAN : internalStop(FALSE, TRUE, TRUE, logCloseOk)

(***************************************************************************)
(* GatewayCluster.recordResp: one step per iteration of its loop.          *)
(***************************************************************************)
\* for memberRespCount < len(membersRespBook): the loop goes on
recordRespLoops ==
  /\ ~gcPanicked
  /\ rrPc = "loop"
  /\ memberRespCount < Cardinality(DOMAIN book)

RecvResponse_overwrites(n, payload) ==
  /\ recordRespLoops
  /\ ~futureClosed
  /\ respDelivered < MaxResponses
  /\ respDelivered' = respDelivered + 1
  /\ memberRespCount' = memberRespCount + 1
  /\ book' = IF n \notin DOMAIN book THEN book
             ELSE IF payload = NilBytes THEN [book EXCEPT ![n] = ""]
             ELSE [book EXCEPT ![n] = payload]
  /\ UNCHANGED << futureClosed, rrPc >>

\* case memberResp, ok := <-future.Response(), with ok
RecvResponse(n, payload) ==
  /\ recordRespLoops
  /\ ~futureClosed
  /\ respDelivered < MaxResponses
  /\ respDelivered' = respDelivered + 1
  /\ memberRespCount' = memberRespCount + 1
  /\ book' = IF n \notin DOMAIN book THEN book
             ELSE IF book[n] # NilBytes THEN book
             ELSE IF payload = NilBytes THEN [book EXCEPT ![n] = ""]
             ELSE [book EXCEPT ![n] = payload]
  /\ UNCHANGED << futureClosed, rrPc >>

\* the future's timeout fires (or every target answered): the stream closes
FutureCloses ==
  /\ ~gcPanicked
  /\ ~futureClosed
  /\ futureClosed' = TRUE
  /\ UNCHANGED << book, memberRespCount, respDelivered, rrPc >>

\* case memberResp, ok := <-future.Response(), with !ok
RecvClosed ==
  /\ recordRespLoops
  /\ futureClosed
  /\ memberRespCount' = memberRespCount + 1
  /\ UNCHANGED << book, futureClosed, respDelivered, rrPc >>

\* case <-gc.stopChan: break LOOP
RecvStopChan ==
  /\ recordRespLoops
  /\ stopChanClosed
  /\ rrPc' = "stopped"
  /\ UNCHANGED << book, memberRespCount, futureClosed, respDelivered >>

\* the loop condition is false: return
recordRespReturns ==
  /\ ~gcPanicked
  /\ rrPc = "loop"
  /\ memberRespCount >= Cardinality(DOMAIN book)
  /\ rrPc' = "done"
  /\ UNCHANGED << book, memberRespCount, futureClosed, respDelivered >>

\* a gateway cluster just constructed, and a recordResp call with a book
\* that holds one nil entry per expected member
NewGatewayCluster ==
  /\ stopped = FALSE
  /\ stopChanClosed = FALSE
  /\ stopChanCloses = 0
  /\ gcPanicked = FALSE
  /\ basisState = "alive"
  /\ logClosed = FALSE
  /\ stopLog = << >>
  /\ watcherPc = "select"
  /\ \E expected \in SUBSET {"A", "B"} : book = [n \in expected |-> NilBytes]
  /\ memberRespCount = 0
  /\ futureClosed = FALSE
  /\ respDelivered = 0
  /\ rrPc = "loop"

InitCluster == newRuntime /\ NewGatewayCluster /\ partsIdle

NextCluster ==
  \/ Stop /\ UNCHANGED << rtVars, rrVars, partVars >>
  \/ BasisGone /\ UNCHANGED << rtVars, rrVars, partVars >>
  \/ WatcherSeesStopChan /\ UNCHANGED << rtVars, rrVars, partVars >>
  \/ WatcherSeesBasisGone /\ UNCHANGED << rtVars, rrVars, partVars >>
  \/ (\E n \in Nodes, payload \in Payloads : RecvResponse(n, payload))
       /\ UNCHANGED << rtVars, gcVars, partVars >>
  \/ FutureCloses /\ UNCHANGED << rtVars, gcVars, partVars >>
  \/ RecvClosed /\ UNCHANGED << rtVars, gcVars, partVars >>
  \/ RecvStopChan /\ UNCHANGED << rtVars, gcVars, partVars >>
  \/ recordRespReturns /\ UNCHANGED << rtVars, gcVars, partVars >>

SpecCluster == InitCluster /\ [][NextCluster]_vars

\* One recordResp call with the responses it receives kept in respLog.
NextRecord ==
  \/ (\E n \in Nodes, payload \in Payloads :
         /\ RecvResponse(n, payload)
         /\ respLog' = Append(respLog, [ResponseNodeName |-> n,
                                        Payload |-> payload]))
       /\ UNCHANGED << rtVars, gcVars, stVars, dpVars, olVars, ncVars,
                       mbVars, smVars >>
  \/ FutureCloses /\ UNCHANGED << rtVars, gcVars, partVars >>
  \/ RecvClosed /\ UNCHANGED << rtVars, gcVars, partVars >>
  \/ RecvStopChan /\ UNCHANGED << rtVars, gcVars, partVars >>
  \/ recordRespReturns /\ UNCHANGED << rtVars, gcVars, partVars >>
  \/ StopSucceeds /\ UNCHANGED << rtVars, rrVars, partVars >>

SpecRecord == InitCluster /\ [][NextRecord]_vars


(***************************************************************************)
(* Status() racing with the fsm.  r.state and r.err are two atomic cells:  *)
(* a handler stores to them one after the other, and Status() loads r.err, *)
(* r.state and r.err again, so every store and every load is a step.      *)
(***************************************************************************)
\* the fields of the runtime these steps leave alone
rtRest == << spec, server, server3, mux, eventChan, limitListener, servers,
             tickerPc, closePc, done, lastEvent >>

\* the fsm goroutine is between two events
fsmIdle == fsmPc = "running" /\ fsmStores = << >>

\* the stores of runtime.startServer for generation n: setState(Running),
\* setError(nil) and, if gnet.Listen fails, setState(Failed), setError(err)
startServerStores(listenOk, n) ==
  << [cell |-> "state", val |-> stateRunning],
     [cell |-> "err", val |-> errNil] >>
  \o (IF listenOk THEN << >>
      ELSE << [cell |-> "state", val |-> stateFailed,
               cause |-> errMsg("listen", n)],
              [cell |-> "err", val |-> errMsg("listen", n)] >>)

\* the stores of runtime.handleEventServeFailed for the error e
serveFailedStores(e) ==
  << [cell |-> "state", val |-> stateFailed, cause |-> e],
     [cell |-> "err", val |-> e] >>

\* the fsm enters startServer (from reload or handleEventCheckFailed):
\* r.roundNum++
BeginStartServer(listenOk) ==
  /\ fsmIdle
  /\ roundNum < MaxRound
  /\ roundNum' = roundNum + 1
  /\ fsmStores' = startServerStores(listenOk, roundNum + 1)
  /\ UNCHANGED << state, err, fsmPc, statusPc, statusOut, lastErr, rtRest >>

\* the fsm enters handleEventServeFailed with the error of the serving
\* goroutine of the current generation
BeginServeFailed ==
  /\ fsmIdle
  /\ state = stateRunning
  /\ fsmStores' = serveFailedStores(errMsg("serve", roundNum))
  /\ lastErr' = errMsg("serve", roundNum)
  /\ UNCHANGED << roundNum, state, err, fsmPc, statusPc, statusOut, rtRest >>

\* r.state.Store or r.err.Store: the next store of the running handler
StoreStep ==
  /\ fsmStores # << >>
  /\ LET h == Head(fsmStores) IN
       IF h.cell = "state"
         THEN /\ state' = h.val
              /\ lastErr' = IF h.val = stateFailed THEN h.cause ELSE lastErr
              /\ UNCHANGED err
         ELSE /\ err' = h.val
              /\ UNCHANGED << state, lastErr >>
  /\ fsmStores' = Tail(fsmStores)
  /\ UNCHANGED << roundNum, fsmPc, statusPc, statusOut, rtRest >>

\* runtime.handleEventClose: setState(stateClosed); the fsm returns
StoreClosed ==
  /\ fsmIdle
  /\ state' = stateClosed
  /\ fsmPc' = "exited"
  /\ UNCHANGED << roundNum, err, fsmStores, statusPc, statusOut, lastErr,
                  rtRest >>

\* runtime.Status: health := r.getError().Error()
StatusLoadHealth ==
  /\ statusPc = "idle"
  /\ statusOut' = [statusOut EXCEPT !.Health = err, !.raised = lastErr]
  /\ statusPc' = "state"
  /\ UNCHANGED << roundNum, state, err, fsmPc, fsmStores, lastErr, rtRest >>

\* runtime.Status: State: r.getState()
StatusLoadState ==
  /\ statusPc = "state"
  /\ statusOut' = [statusOut EXCEPT !.State = state]
  /\ statusPc' = "error"
  /\ UNCHANGED << roundNum, state, err, fsmPc, fsmStores, lastErr, rtRest >>

\* runtime.Status: Error: r.getError().Error(), and the return
StatusLoadError ==
  /\ statusPc = "error"
  /\ statusOut' = [statusOut EXCEPT !.Error = err]
  /\ statusPc' = "returned"
  /\ UNCHANGED << roundNum, state, err, fsmPc, fsmStores, lastErr, rtRest >>

\* the caller calls Status() again
StatusAgain ==
  /\ statusPc = "returned"
  /\ statusPc' = "idle"
  /\ UNCHANGED << roundNum, state, err, fsmPc, fsmStores, statusOut, lastErr,
                  rtRest >>

NextStatus ==
  \/ (\E listenOk \in BOOLEAN : BeginStartServer(listenOk))
       /\ UNCHANGED stOthers
  \/ BeginServeFailed /\ UNCHANGED stOthers
  \/ StoreStep /\ UNCHANGED stOthers
  \/ StoreClosed /\ UNCHANGED stOthers
  \/ StatusLoadHealth /\ UNCHANGED stOthers
  \/ StatusLoadState /\ UNCHANGED stOthers
  \/ StatusLoadError /\ UNCHANGED stOthers
  \/ StatusAgain /\ UNCHANGED stOthers

SpecStatus == Init /\ [][NextStatus]_vars

(***************************************************************************)
(* GatewayCluster.dispatch: one step per event received.                   *)
(***************************************************************************)
dispatchHandler_anyMode(m, payload, closed) ==
  IF Len(payload) = 0 THEN "none"
  ELSE IF closed THEN "none"
  ELSE CASE payload[1] = "querySeqMessage" -> "handleQuerySequence"
         [] payload[1] = "queryMemberMessage" -> "handleQueryMember"
         [] payload[1] = "queryMembersListMessage" -> "handleQueryMembersList"
         [] payload[1] = "queryGroupMessage" -> "handleQueryGroup"
         [] payload[1] = "operationMessage" -> "handleOperation"
         [] payload[1] = "operationRelayMessage" ->
              IF m = ReadMode THEN "handleOperationRelay" ELSE "none"
         [] payload[1] = "retrieveMessage" ->
              IF m = WriteMode THEN "handleRetrieve" ELSE "none"
         [] payload[1] = "retrieveRelayMessage" ->
              IF m = ReadMode THEN "handleRetrieveRelay" ELSE "none"
         [] payload[1] = "statMessage" -> "handleStat"
         [] payload[1] = "statRelayMessage" -> "handleStatRelay"
         [] payload[1] = "opLogPullMessage" -> "handleOPLogPull"
         [] OTHER -> "none"

\* the handler dispatch starts for a RequestEvent with this payload and
\* Closed() flag on a member of mode m: the switch of dispatch
dispatchHandler(m, payload, closed) ==
  IF Len(payload) = 0 THEN "none"
  ELSE IF closed THEN "none"
  ELSE CASE payload[1] = "querySeqMessage" -> "handleQuerySequence"
         [] payload[1] = "queryMemberMessage" -> "handleQueryMember"
         [] payload[1] = "queryMembersListMessage" -> "handleQueryMembersList"
         [] payload[1] = "queryGroupMessage" -> "handleQueryGroup"
         [] payload[1] = "operationMessage" ->
              IF m = WriteMode THEN "handleOperation" ELSE "none"
         [] payload[1] = "operationRelayMessage" ->
              IF m = ReadMode THEN "handleOperationRelay" ELSE "none"
         [] payload[1] = "retrieveMessage" ->
              IF m = WriteMode THEN "handleRetrieve" ELSE "none"
         [] payload[1] = "retrieveRelayMessage" ->
              IF m = ReadMode THEN "handleRetrieveRelay" ELSE "none"
         [] payload[1] = "statMessage" -> "handleStat"
         [] payload[1] = "statRelayMessage" -> "handleStatRelay"
         [] payload[1] = "opLogPullMessage" -> "handleOPLogPull"
         [] OTHER -> "none"

\* the basis cluster delivers a RequestEvent to gc.eventStream
RequestArrives(payload, closed) ==
  /\ arrived < MaxEvents
  /\ arrived' = arrived + 1
  /\ eventStream' = Append(eventStream,
        [kind |-> "RequestEvent", id |-> arrived + 1,
         RequestPayload |-> payload, Closed |-> closed])
  /\ UNCHANGED << mode, dispatchPc, dispatched, responded >>

\* the basis cluster delivers a MemberEvent to gc.eventStream
MemberEventArrives ==
  /\ arrived < MaxEvents
  /\ arrived' = arrived + 1
  /\ eventStream' = Append(eventStream,
        [kind |-> "MemberEvent", id |-> arrived + 1])
  /\ UNCHANGED << mode, dispatchPc, dispatched, responded >>

\* dispatch: case event := <-gc.eventStream
dispatch ==
  /\ dispatchPc = "loop"
  /\ eventStream # << >>
  /\ eventStream' = Tail(eventStream)
  /\ LET event == Head(eventStream) IN
       IF event.kind = "RequestEvent"
         THEN dispatched' = Append(dispatched,
                 [event |-> event,
                  handler |-> dispatchHandler(mode, event.RequestPayload,
                                              event.Closed)])
         ELSE UNCHANGED dispatched
  /\ UNCHANGED << mode, arrived, dispatchPc, responded >>

dispatchStops_whenIdle ==
  /\ dispatchPc = "loop"
  /\ stopChanClosed
  /\ eventStream = << >>
  /\ dispatchPc' = "stopped"
  /\ UNCHANGED << mode, eventStream, arrived, dispatched, responded >>

\* dispatch: case <-gc.stopChan: break LOOP
dispatchStops ==
  /\ dispatchPc = "loop"
  /\ stopChanClosed
  /\ dispatchPc' = "stopped"
  /\ UNCHANGED << mode, eventStream, arrived, dispatched, responded >>

\* a handler started by dispatch answers its request: handleResp, whose
\* PackWithHeader and req.Respond succeed
handleResp(k) ==
  /\ dispatched[k].handler # "none"
  /\ dispatched[k].event.id \notin responded
  /\ responded' = responded \cup {dispatched[k].event.id}
  /\ UNCHANGED << mode, eventStream, arrived, dispatchPc, dispatched >>

\* a gateway cluster of either mode, or of a mode that is neither
InitDispatch ==
  /\ newRuntime /\ gcIdle /\ stIdle /\ dpIdle /\ respLog = << >>
  /\ conf = [OPLogMaxSeqGapToPull |-> 1, OPLogPullMaxCountOnce |-> 1]
  /\ olIdle
  /\ ncIdle
  /\ mbIdle
  /\ smIdle
  /\ mode \in {WriteMode, ReadMode, NilMode}

NextDispatch ==
  \/ (\E payload \in RequestPayloads, closed \in BOOLEAN :
         RequestArrives(payload, closed))
       /\ UNCHANGED dpOthers
  \/ MemberEventArrives /\ UNCHANGED dpOthers
  \/ dispatch /\ UNCHANGED dpOthers
  \/ dispatchStops /\ UNCHANGED dpOthers
  \/ (\E k \in 1..Len(dispatched) : handleResp(k))
       /\ UNCHANGED dpOthers
  \/ StopSucceeds /\ UNCHANGED << rtVars, rrVars, partVars >>

SpecDispatch == InitDispatch /\ [][NextDispatch]_vars

\* The shutdown of the loops.  The basis cluster keeps delivering member
\* events for ever (they are not counted and leave no trace in dispatched;
\* a request event differs only in the goroutine dispatch starts for it),
\* while stop calls of any outcome are made and a recordResp call runs.
MemberEventKeepsArriving ==
  /\ Len(eventStream) < MaxEvents
  /\ eventStream' = Append(eventStream, [kind |-> "MemberEvent", id |-> 0])
  /\ UNCHANGED << mode, arrived, dispatchPc, dispatched, responded >>

NextStop ==
  \/ Stop /\ UNCHANGED << rtVars, rrVars, partVars >>
  \/ BasisGone /\ UNCHANGED << rtVars, rrVars, partVars >>
  \/ WatcherSeesStopChan /\ UNCHANGED << rtVars, rrVars, partVars >>
  \/ WatcherSeesBasisGone /\ UNCHANGED << rtVars, rrVars, partVars >>
  \/ MemberEventKeepsArriving /\ UNCHANGED dpOthers
  \/ dispatch /\ UNCHANGED dpOthers
  \/ dispatchStops /\ UNCHANGED dpOthers
  \/ (\E n \in Nodes, payload \in Payloads : RecvResponse(n, payload))
       /\ UNCHANGED << rtVars, gcVars, partVars >>
  \/ FutureCloses /\ UNCHANGED << rtVars, gcVars, partVars >>
  \/ RecvClosed /\ UNCHANGED << rtVars, gcVars, partVars >>
  \/ RecvStopChan /\ UNCHANGED << rtVars, gcVars, partVars >>
  \/ recordRespReturns /\ UNCHANGED << rtVars, gcVars, partVars >>

\* The scheduling the loops rely on: select chooses at random among its
\* ready cases, so a case that stays ready is chosen in the end, and a loop
\* whose condition is false returns.
FairSpecStop ==
  /\ InitCluster
  /\ [][NextStop]_vars
  /\ WF_vars(dispatchStops /\ UNCHANGED dpOthers)
  /\ WF_vars(RecvStopChan /\ UNCHANGED << rtVars, gcVars, partVars >>)
  /\ WF_vars(recordRespReturns /\ UNCHANGED << rtVars, gcVars, partVars >>)


(***************************************************************************)
(* The OpLog, the sync loop of a Reader and its OperationRelay handlers.   *)
(* Their code is not among the source files (gateway.go only creates the   *)
(* OpLog and starts the loop and the handlers); they follow the design     *)
(* document: OpLog 4.1, sync loop 4.6, handlers 4.8.                       *)
(***************************************************************************)
\* OpLog.MaxSeq: the largest sequence number held, 0 for an empty log
OPLogMaxSeq(log) ==
  IF log = {} THEN 0 ELSE CHOOSE s \in log : \A x \in log : x <= s

OPLogAppendErr_acceptsGap(log, seq) ==
  IF seq <= OPLogMaxSeq(log) THEN "ErrDuplicate"
  ELSE "nil"

\* OpLog.Append: the error it returns for an operation with this seq
OPLogAppendErr(log, seq) ==
  IF seq <= OPLogMaxSeq(log) THEN "ErrDuplicate"
  ELSE IF seq # OPLogMaxSeq(log) + 1 THEN "ErrSeqGap"
  ELSE "nil"

\* OpLog.Append: the log after the call
OPLogAppend(log, seq) ==
  IF OPLogAppendErr(log, seq) = "nil" THEN log \cup {seq} ELSE log

\* OpLog.ReadSince(s, n): the operations with seq in
\* [s, min(s+n-1, MaxSeq)], in order
OPLogReadSince(log, s, n) ==
  LET last == IF s + n - 1 < OPLogMaxSeq(log) THEN s + n - 1
              ELSE OPLogMaxSeq(log)
  IN  [ i \in 1..(IF last >= s THEN last - s + 1 ELSE 0) |-> s + i - 1 ]

\* the maxCount of the OpLogPull request (steps 3 and 4 of the loop): the
\* gap, capped to OPLogMaxSeqGapToPull, then min(gap, OPLogPullMaxCountOnce)
pullMaxCount(c, writerMax, localMax) ==
  LET gap0 == writerMax - localMax
      gap == IF gap0 > c.OPLogMaxSeqGapToPull THEN c.OPLogMaxSeqGapToPull
             ELSE gap0
  IN  IF gap < c.OPLogPullMaxCountOnce THEN gap ELSE c.OPLogPullMaxCountOnce

\* a direct call of OpLog.Append
AppendCall(seq) ==
  /\ Len(appendLog) < MaxAppends
  /\ oplog' = OPLogAppend(oplog, seq)
  /\ appendLog' = Append(appendLog,
        [seq |-> seq, err |-> OPLogAppendErr(oplog, seq)])
  /\ UNCHANGED << conf, writerMaxSeq, applied, syncPc, syncBatch, syncNew,
                  pulls, relayPc >>

\* syncOpLogLoop, steps 2 to 4: QuerySeq, then a successful OpLogPull
SyncPull ==
  /\ syncPc = "sleep"
  /\ writerMaxSeq > OPLogMaxSeq(oplog)
  /\ syncBatch' = OPLogReadSince(1..writerMaxSeq, OPLogMaxSeq(oplog) + 1,
                     pullMaxCount(conf, writerMaxSeq, OPLogMaxSeq(oplog)))
  /\ syncPc' = "append"
  /\ pulls' = pulls + 1
  /\ UNCHANGED << conf, writerMaxSeq, oplog, applied, syncNew, relayPc,
                  appendLog >>

\* syncOpLogLoop, step 5: Append of the next pulled operation
SyncAppend ==
  /\ syncPc = "append"
  /\ syncBatch # << >>
  /\ LET seq == Head(syncBatch)
         res == OPLogAppendErr(oplog, seq)
     IN  /\ oplog' = OPLogAppend(oplog, seq)
         /\ IF res = "ErrSeqGap"
              THEN \* abandon the iteration
                   /\ syncBatch' = << >>
                   /\ syncNew' = << >>
                   /\ syncPc' = "sleep"
              ELSE /\ syncBatch' = Tail(syncBatch)
                   /\ syncNew' = IF res = "nil" THEN Append(syncNew, seq)
                                 ELSE syncNew
                   /\ syncPc' = IF Tail(syncBatch) = << >> THEN "apply"
                                ELSE "append"
  /\ UNCHANGED << conf, writerMaxSeq, applied, pulls, relayPc, appendLog >>

\* syncOpLogLoop, step 6: the model's Apply for the next new operation, or
\* the end of the iteration
SyncApply ==
  /\ syncPc = "apply"
  /\ IF syncNew = << >>
       THEN /\ syncPc' = "sleep"
            /\ UNCHANGED << applied, syncNew >>
       ELSE /\ applied' = Append(applied, Head(syncNew))
            /\ syncNew' = Tail(syncNew)
            /\ UNCHANGED syncPc
  /\ UNCHANGED << conf, writerMaxSeq, oplog, syncBatch, pulls, relayPc,
                  appendLog >>

\* the Writer handles an Operation: it appends it and relays it to the
\* Reader, whose dispatcher starts handleOperationRelay
WriterOperation ==
  /\ writerMaxSeq < MaxSeqNo
  /\ writerMaxSeq' = writerMaxSeq + 1
  /\ relayPc' = Append(relayPc, "sent")
  /\ UNCHANGED << conf, oplog, applied, syncPc, syncBatch, syncNew, pulls,
                  appendLog >>

\* handleOperationRelay for operation seq: append locally
RelayAppend(seq) ==
  /\ relayPc[seq] = "sent"
  /\ oplog' = OPLogAppend(oplog, seq)
  /\ relayPc' = [relayPc EXCEPT ![seq] =
                   IF OPLogAppendErr(oplog, seq) = "nil" THEN "appended"
                   ELSE "done"]
  /\ UNCHANGED << conf, writerMaxSeq, applied, syncPc, syncBatch, syncNew,
                  pulls, appendLog >>

\* handleOperationRelay for operation seq: apply locally, then acknowledge
RelayApply(seq) ==
  /\ relayPc[seq] = "appended"
  /\ applied' = Append(applied, seq)
  /\ relayPc' = [relayPc EXCEPT ![seq] = "done"]
  /\ UNCHANGED << conf, writerMaxSeq, oplog, syncPc, syncBatch, syncNew,
                  pulls, appendLog >>

\* the valid configurations of the pull
Configs ==
  [ OPLogMaxSeqGapToPull : 1..MaxConf, OPLogPullMaxCountOnce : 1..MaxConf ]

\* the parts outside the OpLog
olOthersIdle ==
  /\ newRuntime /\ gcIdle /\ stIdle
  /\ mode = ReadMode /\ dpIdle
  /\ respLog = << >>
  /\ ncIdle
  /\ mbIdle
  /\ smIdle

olOthers == << rtVars, gcVars, rrVars, stVars, dpVars, rlVars, ncVars,
              mbVars, smVars >>

\* Append calls with any seq on an OpLog that starts empty
InitOpLog ==
  /\ olOthersIdle /\ olIdle
  /\ conf = [OPLogMaxSeqGapToPull |-> 1, OPLogPullMaxCountOnce |-> 1]

NextOpLog ==
  (\E seq \in 0..(MaxSeqNo + 1) : AppendCall(seq)) /\ UNCHANGED olOthers

SpecOpLog == InitOpLog /\ [][NextOpLog]_vars

\* a Reader at 0 whose Writer stays at M
InitSync ==
  /\ olOthersIdle
  /\ conf \in Configs
  /\ writerMaxSeq \in 0..MaxSeqNo
  /\ oplog = {}
  /\ applied = << >>
  /\ syncPc = "sleep"
  /\ syncBatch = << >>
  /\ syncNew = << >>
  /\ pulls = 0
  /\ relayPc = << >>
  /\ appendLog = << >>

NextSync ==
  \/ SyncPull /\ UNCHANGED olOthers
  \/ SyncAppend /\ UNCHANGED olOthers
  \/ SyncApply /\ UNCHANGED olOthers

SpecSync == InitSync /\ [][NextSync]_vars

\* a Reader whose Writer handles operations and relays them
InitReader ==
  /\ olOthersIdle /\ olIdle
  /\ conf \in Configs

NextReader ==
  \/ WriterOperation /\ UNCHANGED olOthers
  \/ (\E seq \in 1..Len(relayPc) : RelayAppend(seq)) /\ UNCHANGED olOthers
  \/ (\E seq \in 1..Len(relayPc) : RelayApply(seq)) /\ UNCHANGED olOthers
  \/ SyncPull /\ UNCHANGED olOthers
  \/ SyncAppend /\ UNCHANGED olOthers
  \/ SyncApply /\ UNCHANGED olOthers

SpecReader == InitReader /\ [][NextReader]_vars

(***************************************************************************)
(* NewGatewayCluster: the checks of its arguments and what it starts.      *)
(* Durations are in seconds; OPLogPullInterval is a signed time.Duration.  *)
(***************************************************************************)
\* the configurations a caller may pass: each field with a value the
\* constructor must refuse and values it may accept
ConfInputs ==
  [ ClusterGroup : {"", "g1"},
    ClusterMemberMode : {WriteMode, ReadMode, NilMode},
    OPLogMaxSeqGapToPull : {0, 1},
    OPLogPullMaxCountOnce : {0, 1},
    OPLogPullInterval : {-1, 0, 1},
    OPLogPullTimeout : {9, 10} ]

\* the values of option.ClusterHost
AdvertiseInputs ==
  { "127.0.0.1", "localhost", "0.0.0.0", "127.0.0.2", "::1", "::",
    "10.0.0.5" }

\* NewGatewayCluster: the switch over the configuration
confError(c) ==
  IF c.ClusterGroup = "" THEN "empty group"
  ELSE IF c.OPLogMaxSeqGapToPull = 0
    THEN "oplog_max_seq_gap_to_pull must be greater then 0"
  ELSE IF c.OPLogPullMaxCountOnce = 0
    THEN "oplog_pull_max_count_once must be greater then 0"
  ELSE IF c.OPLogPullInterval = 0
    THEN "oplog_pull_interval must be greater than 0"
  ELSE IF c.OPLogPullTimeout < 10
    THEN "oplog_pull_timeout must be greater than or equals to 10"
  ELSE "nil"

\* NewGatewayCluster: common.StrInSlice(basisConf.AdvertiseAddress, ...)
advertiseRefused(a) == a \in {"127.0.0.1", "localhost", "0.0.0.0"}

\* NewGatewayCluster(conf, mod); createOk and logOk are the outcomes of
\* cluster.Create and NewOPLog
NewGatewayClusterCall(createOk, logOk) ==
  /\ ~created.returned
  /\ LET failed(e) == [returned |-> TRUE, err |-> e, watcher |-> FALSE,
                       dispatch |-> FALSE, syncOpLogLoop |-> FALSE]
     IN  IF modIsNil THEN created' = failed("model is nil") /\ UNCHANGED mode
         ELSE IF confError(conf) # "nil"
           THEN created' = failed(confError(conf)) /\ UNCHANGED mode
         ELSE IF advertiseRefused(advertise)
           THEN created' = failed("invalid advertise address")
                /\ UNCHANGED mode
         ELSE IF ~createOk
           THEN created' = failed("create failed") /\ UNCHANGED mode
         ELSE IF ~logOk
           THEN created' = failed("oplog failed") /\ UNCHANGED mode
         ELSE /\ mode' = conf.ClusterMemberMode
              /\ created' = [returned |-> TRUE, err |-> "nil",
                             watcher |-> TRUE, dispatch |-> TRUE,
                             syncOpLogLoop |->
                                (conf.ClusterMemberMode = ReadMode)]
  /\ UNCHANGED << modIsNil, advertise, conf >>

ncOthers == << rtVars, gcVars, rrVars, stVars, rlVars, eventStream, arrived,
               dispatchPc, dispatched, responded, writerMaxSeq, oplog,
               applied, syncPc, syncBatch, syncNew, pulls, relayPc,
               appendLog, mbVars, smVars >>

\* the arguments and options of a call
InitConstruct ==
  /\ newRuntime /\ gcIdle /\ stIdle /\ dpIdle /\ olIdle /\ mbIdle
  /\ smIdle
  /\ mode = NilMode
  /\ respLog = << >>
  /\ conf \in ConfInputs
  /\ modIsNil \in BOOLEAN
  /\ advertise \in AdvertiseInputs
  /\ created = notCreated

NextConstruct ==
  (\E createOk, logOk \in BOOLEAN : NewGatewayClusterCall(createOk, logOk))
    /\ UNCHANGED ncOthers

SpecConstruct == InitConstruct /\ [][NextConstruct]_vars

(***************************************************************************)
(* The membership queries of GatewayCluster, on the member list            *)
(* gc.cluster.Members().  A member is [NodeName, Status, group, mode].     *)
(***************************************************************************)
MemberAlive == "alive"
MemberStatuses == {MemberAlive, "suspect", "failed", "left"}

\* NoneGroup: the group argument that stands for every group
NoneGroup == ""

\* the name of the member at position i of the list: names are not in
\* ascending order along the list
nameAt(i) == "n" \o ToString(((2 * i) % 5) + 1)

\* the position of a name or group in ascending string order: names and
\* groups differ in their last character, a digit
rank(s) ==
  CHOOSE k \in 1..9 : s \in {"n" \o ToString(k), "g" \o ToString(k)}

\* sort.Strings
RECURSIVE sortStrings(_)
sortStrings(s) ==
  IF s = << >> THEN << >>
  ELSE LET x == Head(s)
           rest == sortStrings(Tail(s))
       IN  SelectSeq(rest, LAMBDA y : rank(y) < rank(x)) \o << x >>
           \o SelectSeq(rest, LAMBDA y : ~(rank(y) < rank(x)))

\* the elements of s in order of first occurrence (the book of names seen)
RECURSIVE dedup(_)
dedup(s) ==
  IF s = << >> THEN << >>
  ELSE LET init == dedup(SubSeq(s, 1, Len(s) - 1))
           x == s[Len(s)]
       IN  IF \E i \in 1..Len(init) : init[i] = x THEN init
           ELSE Append(init, x)

\* the positions of the Alive members of group g with mode Write
aliveWriters(ms, g) ==
  { i \in 1..Len(ms) : /\ ms[i].Status = MemberAlive
                       /\ ms[i].mode = WriteMode
                       /\ ms[i].group = g }

\* the smallest and the largest element of a set of positions
first(S) == CHOOSE i \in S : \A j \in S : i <= j
last(S) == CHOOSE i \in S : \A j \in S : j <= i

\* GatewayCluster.writerInGroup: the first Alive Write member of group g
writerInGroup(ms, g) ==
  IF aliveWriters(ms, g) = {}
    THEN [node |-> "", err |-> "writer doesn't exist in group"]
    ELSE [node |-> ms[first(aliveWriters(ms, g))].NodeName, err |-> "nil"]

\* GatewayCluster.choosePeerForGroup: the first Alive Write member of group
\* g, else the last Alive member of g seen (candidate is overwritten)
choosePeerForGroup(ms, g) ==
  LET peers == { i \in 1..Len(ms) : /\ ms[i].Status = MemberAlive
                                    /\ ms[i].group = g }
  IN  IF aliveWriters(ms, g) # {}
        THEN [node |-> ms[first(aliveWriters(ms, g))].NodeName, err |-> "nil"]
        ELSE IF peers = {}
          THEN [node |-> "", err |-> "group doesn't has any peer"]
          ELSE [node |-> ms[last(peers)].NodeName, err |-> "nil"]

\* GatewayCluster.writerInEveryGroup: writerBook[group] is overwritten by
\* every Alive Write member, so it ends with the last one; the nodes are
\* appended in map iteration order, so the result is given as a set
writerInEveryGroup(ms) ==
  LET groupBook == { ms[i].group : i \in
                       { j \in 1..Len(ms) : ms[j].Status = MemberAlive } }
  IN  IF \E g \in groupBook : aliveWriters(ms, g) = {}
        THEN [nodes |-> {}, err |-> "writer doesn't exist in group"]
        ELSE [nodes |-> { ms[last(aliveWriters(ms, g))].NodeName :
                             g \in groupBook },
              err |-> "nil"]

\* GatewayCluster.aliveNodesInCluster
aliveNodesInCluster(ms, m, group) ==
  LET sel == SelectSeq(ms, LAMBDA member :
                 /\ member.Status = MemberAlive
                 /\ (m = NilMode \/ m = member.mode)
                 /\ (group = NoneGroup \/ group = member.group))
  IN  sortStrings(dedup([ i \in 1..Len(sel) |-> sel[i].NodeName ]))

\* GatewayCluster.groupsInCluster: the groups of all members
groupsInCluster(ms) ==
  sortStrings(dedup([ i \in 1..Len(ms) |-> ms[i].group ]))

\* GatewayCluster.groupExistInCluster
groupExistInCluster(ms, group) ==
  \E i \in 1..Len(groupsInCluster(ms)) : groupsInCluster(ms)[i] = group

\* GatewayCluster.RestAliveMembersInSameGroup of the node with this name
\* and group
RestAliveMembersInSameGroup(ms, groupName, nodeName) ==
  SelectSeq(ms, LAMBDA member :
     /\ member.group = groupName
     /\ member.Status = MemberAlive
     /\ member.NodeName # nodeName)

\* the groups of the members
Groups == {"g1", "g2"}

\* the tags and status a member may have
MemberInputs ==
  [ Status : MemberStatuses, group : Groups, mode : {WriteMode, ReadMode} ]

\* the local node is the first member of the list
localMemberName == members[1].NodeName
localGroupName == members[1].group

\* the writer-selecting queries log nothing
CallWriterInGroup(g) ==
  /\ answer' = [query |-> "writerInGroup", group |-> g,
                result |-> writerInGroup(members, g), warned |-> FALSE]
  /\ UNCHANGED members

CallChoosePeerForGroup(g) ==
  /\ answer' = [query |-> "choosePeerForGroup", group |-> g,
                result |-> choosePeerForGroup(members, g), warned |-> FALSE]
  /\ UNCHANGED members

CallWriterInEveryGroup ==
  /\ answer' = [query |-> "writerInEveryGroup",
                result |-> writerInEveryGroup(members), warned |-> FALSE]
  /\ UNCHANGED members

CallAliveNodesInCluster(m, g) ==
  /\ answer' = [query |-> "aliveNodesInCluster", mode |-> m, group |-> g,
                result |-> aliveNodesInCluster(members, m, g)]
  /\ UNCHANGED members

CallGroupsInCluster ==
  /\ answer' = [query |-> "groupsInCluster",
                result |-> groupsInCluster(members)]
  /\ UNCHANGED members

CallGroupExistInCluster(g) ==
  /\ answer' = [query |-> "groupExistInCluster", group |-> g,
                result |-> groupExistInCluster(members, g)]
  /\ UNCHANGED members

CallRestAliveMembersInSameGroup ==
  /\ answer' = [query |-> "RestAliveMembersInSameGroup",
                result |-> RestAliveMembersInSameGroup(members,
                              localGroupName, localMemberName)]
  /\ UNCHANGED members

mbOthers == << rtVars, gcVars, rrVars, stVars, dpVars, rlVars, olVars,
               ncVars, smVars >>

\* a member list of one to MaxMembers members of any status, group and mode
InitMembers ==
  /\ newRuntime /\ gcIdle /\ stIdle /\ dpIdle /\ olIdle /\ ncIdle
  /\ smIdle
  /\ mode = WriteMode
  /\ respLog = << >>
  /\ conf = [OPLogMaxSeqGapToPull |-> 1, OPLogPullMaxCountOnce |-> 1]
  /\ \E n \in 1..MaxMembers :
        \E tags \in [1..n -> MemberInputs] :
           members = [ i \in 1..n |->
                         [NodeName |-> nameAt(i), Status |-> tags[i].Status,
                          group |-> tags[i].group, mode |-> tags[i].mode] ]
  /\ answer = [query |-> "none"]

NextMembers ==
  \/ (\E g \in Groups : CallWriterInGroup(g)) /\ UNCHANGED mbOthers
  \/ (\E g \in Groups : CallChoosePeerForGroup(g)) /\ UNCHANGED mbOthers
  \/ CallWriterInEveryGroup /\ UNCHANGED mbOthers
  \/ (\E m \in {NilMode, WriteMode, ReadMode}, g \in Groups \cup {NoneGroup} :
         CallAliveNodesInCluster(m, g)) /\ UNCHANGED mbOthers
  \/ CallGroupsInCluster /\ UNCHANGED mbOthers
  \/ (\E g \in Groups : CallGroupExistInCluster(g)) /\ UNCHANGED mbOthers
  \/ CallRestAliveMembersInSameGroup /\ UNCHANGED mbOthers

SpecMembers == InitMembers /\ [][NextMembers]_vars

(***************************************************************************)
(* DurationSampler (the sampler package in runtime.go).  Durations are     *)
(* counted in microseconds: every threshold of the code is a multiple of   *)
(* half a millisecond.                                                     *)
(***************************************************************************)
\* time.Millisecond
Millisecond == 1000

\* var segments
segments ==
  << [resolution |-> Millisecond,        slots |-> 500],
     [resolution |-> Millisecond * 2,    slots |-> 250],
     [resolution |-> Millisecond * 4,    slots |-> 250],
     [resolution |-> Millisecond * 8,    slots |-> 125],
     [resolution |-> Millisecond * 16,   slots |-> 125],
     [resolution |-> Millisecond * 32,   slots |-> 125],
     [resolution |-> Millisecond * 64,   slots |-> 125],
     [resolution |-> Millisecond * 128,  slots |-> 125],
     [resolution |-> Millisecond * 256,  slots |-> 125],
     [resolution |-> Millisecond * 512,  slots |-> 125],
     [resolution |-> Millisecond * 1024, slots |-> 125] >>

\* Percentiles: the percentiles reported, in thousandths
percentiles == << 250, 500, 750, 950, 980, 990, 999 >>

\* Percentiles: the value of a percentile no slot of the table reaches
beyondTable == 9999999

\* integer division of Go: the quotient is truncated toward zero
goDiv(a, b) == IF a >= 0 THEN a \div b ELSE -((-a) \div b)

\* the slots of the first k segments together
RECURSIVE sumSlots(_)
sumSlots(k) == IF k = 0 THEN 0 ELSE sumSlots(k - 1) + segments[k].slots

lenDurations_noOverflowSlot == sumSlots(Len(segments))

\* NewDurationSampler: len(ds.durations), one slot more than the segments
lenDurations == 1 + sumSlots(Len(segments))

\* Update: the loop over the segments from segment k on, with what is left
\* of d and the index reached
RECURSIVE updateIdx(_, _, _)
updateIdx(k, d, idx) ==
  IF k > Len(segments) THEN idx
  ELSE LET s == segments[k]
           bound == s.resolution * s.slots
       IN  IF d < bound - goDiv(s.resolution, 2)
             THEN idx + goDiv(d + goDiv(s.resolution, 2), s.resolution)
             ELSE updateIdx(k + 1, d - bound, idx + s.slots)

\* Update: the index of the slot of duration d
bucketIndex(d) == updateIdx(1, d, 0)

\* ds.durations[i]
slotAt(ds, i) == IF i \in DOMAIN ds THEN ds[i] ELSE 0

AddUint32_store(ds, i) == [j \in DOMAIN ds \cup {i} |-> IF j = i THEN 1 ELSE ds[j]]

\* atomic.AddUint32(&ds.durations[i], 1)
AddUint32(ds, i) ==
  [j \in DOMAIN ds \cup {i} |-> IF j = i THEN slotAt(ds, i) + 1 ELSE ds[j]]

\* Percentiles: count after the slots 0..di have been added
RECURSIVE sumSlotsOf(_, _)
sumSlotsOf(ds, S) ==
  IF S = {} THEN 0
  ELSE LET i == CHOOSE x \in S : TRUE
       IN  ds[i] + sumSlotsOf(ds, S \ {i})

cumulative(ds, di) == sumSlotsOf(ds, { j \in DOMAIN ds : j <= di })

\* Percentiles: d := base + s.resolution*i for slot di of the table, found
\* from segment k on
RECURSIVE slotDuration(_, _, _)
slotDuration(k, i, base) ==
  LET s == segments[k]
  IN  IF i < s.slots
        THEN base + s.resolution * i
        ELSE slotDuration(k + 1, i - s.slots, base + s.resolution * s.slots)

\* Percentiles: result[pi] for the percentile of pm thousandths.  The loops
\* visit the slots of the segments in order and give the percentile the
\* duration of the first slot where count/total >= pm/1000; the quotient can
\* first reach it only in a slot that is not zero.  total = 0 makes the
\* quotient NaN, which compares false.
percentileOf(cnt, ds, pm) ==
  LET reached == { di \in DOMAIN ds :
                     /\ di < sumSlots(Len(segments))
                     /\ cnt # 0
                     /\ cumulative(ds, di) * 1000 >= pm * cnt }
  IN  IF reached = {} THEN beyondTable
      ELSE LET di == CHOOSE x \in reached : \A y \in reached : x <= y
           IN  goDiv(slotDuration(1, di, 0), Millisecond)

\* a bag with one more copy of x
bagAdd(b, x) ==
  [y \in DOMAIN b \cup {x} |->
     (IF y \in DOMAIN b THEN b[y] ELSE 0) + (IF y = x THEN 1 ELSE 0)]

\* the end of segment k: the sum of the bounds s.resolution * s.slots of
\* the first k segments
RECURSIVE tableEndOf(_)
tableEndOf(k) ==
  IF k = 0 THEN 0
  ELSE tableEndOf(k - 1) + segments[k].resolution * segments[k].slots

\* the durations Update is called with: inside the first buckets, and for
\* every segment its end, the nearest duration below it, and the two
\* durations around the point half a resolution below it; one far beyond
\* the table
DurationInputs ==
  { 0, 499, 500, 1000, 501000, 2000000000 }
  \cup UNION { { tableEndOf(k) - segments[k].resolution \div 2 - 1,
                 tableEndOf(k) - segments[k].resolution \div 2,
                 tableEndOf(k) - 1,
                 tableEndOf(k) } : k \in 1..Len(segments) }

\* DurationSampler.Update(d), called alone
Update(d) ==
  /\ count < MaxSamples
  /\ ~indexPanic
  /\ \A c \in Updaters : updaters[c].pc = "idle"
  /\ count' = count + 1
  /\ IF bucketIndex(d) \in 0..(lenDurations - 1)
       THEN /\ durations' = AddUint32(durations, bucketIndex(d))
            /\ UNCHANGED indexPanic
       ELSE /\ indexPanic' = TRUE
            /\ UNCHANGED durations
  /\ population' = bagAdd(population, d)
  /\ reported' = << >>
  /\ UNCHANGED updaters

\* DurationSampler.Percentiles()
Percentiles ==
  /\ ~indexPanic
  /\ \A c \in Updaters : updaters[c].pc \in {"idle", "done"}
  /\ reported = << >>
  /\ reported' = [pi \in 1..Len(percentiles) |->
                    percentileOf(count, durations, percentiles[pi])]
  /\ UNCHANGED << count, durations, indexPanic, population, updaters >>

\* DurationSampler.Reset()
Reset ==
  /\ ~indexPanic
  /\ \A c \in Updaters : updaters[c].pc = "idle"
  /\ count # 0
  /\ count' = 0
  /\ durations' = << >>
  /\ population' = << >>
  /\ reported' = << >>
  /\ UNCHANGED << indexPanic, updaters >>

smOthers == << rtVars, gcVars, rrVars, stVars, dpVars, rlVars, olVars,
               ncVars, mbVars >>

NextSampler ==
  \/ (\E d \in DurationInputs : Update(d)) /\ UNCHANGED smOthers
  \/ Percentiles /\ UNCHANGED smOthers
  \/ Reset /\ UNCHANGED smOthers

SpecSampler == Init /\ [][NextSampler]_vars

\* Concurrent callers of Update: the loop works on locals only, and each of
\* the two atomic additions is a step.
\* the durations of concurrent callers: two of one bucket, the next bucket,
\* and one beyond the table
UpdaterInputs == { 0, 499, 1000, 257000000 }

\* Update: the caller enters and computes idx
UpdateBegin(c, d) ==
  /\ updaters[c].pc = "idle"
  /\ updaters' = [updaters EXCEPT ![c] =
                    [pc |-> "count", d |-> d, idx |-> bucketIndex(d)]]
  /\ UNCHANGED << count, durations, indexPanic, population, reported >>

\* Update: atomic.AddUint64(&ds.count, 1)
UpdateAddCount(c) ==
  /\ updaters[c].pc = "count"
  /\ count' = count + 1
  /\ updaters' = [updaters EXCEPT ![c].pc = "slot"]
  /\ UNCHANGED << durations, indexPanic, population, reported >>

\* Update: atomic.AddUint32(&ds.durations[idx], 1), and the return
UpdateAddSlot(c) ==
  /\ updaters[c].pc = "slot"
  /\ ~indexPanic
  /\ IF updaters[c].idx \in 0..(lenDurations - 1)
       THEN /\ durations' = AddUint32(durations, updaters[c].idx)
            /\ UNCHANGED indexPanic
       ELSE /\ indexPanic' = TRUE
            /\ UNCHANGED durations
  /\ updaters' = [updaters EXCEPT ![c].pc = "done"]
  /\ UNCHANGED << count, population, reported >>

NextUpdaters ==
  \/ (\E c \in Updaters, d \in UpdaterInputs : UpdateBegin(c, d))
       /\ UNCHANGED smOthers
  \/ (\E c \in Updaters : UpdateAddCount(c)) /\ UNCHANGED smOthers
  \/ (\E c \in Updaters : UpdateAddSlot(c)) /\ UNCHANGED smOthers

SpecUpdaters == Init /\ [][NextUpdaters]_vars

(***************************************************************************)
(* Properties of the server runtime.                                       *)
(***************************************************************************)
\* the step is the fsm handling the event at the head of the channel
fsmHandles(type) == fsmReceives(type) /\ eventChan' = Tail(eventChan)

\* the generations whose listener is open
openListeners == { i \in 1..Len(servers) : listenerOpen(servers[i]) }

\* x and y differ in a field other than maxConnections, cacheSize,
\* xForwardedFor, tracing, ipFilter and rules
differOutsideHotFields(x, y) ==
  \/ x.Port # y.Port
  \/ x.HTTPS # y.HTTPS
  \/ x.HTTP3 # y.HTTP3
  \/ x.KeepAlive # y.KeepAlive
  \/ x.KeepAliveTimeout # y.KeepAliveTimeout

\* C1: handling a ServeFailed event whose roundNum is lower than the
\* runtime's roundNum changes nothing: state, error, roundNum, the servers,
\* the spec, the mux and the limit listener are as before.
C1_StaleServeFailedIsNoOp ==
  [][ (fsmHandles("ServeFailed") /\ Head(eventChan).roundNum < roundNum)
        => UNCHANGED << state, err, roundNum, server, server3, servers, spec,
                        mux, limitListener, fsmPc >> ]_vars

\* a ServeFailed of an older generation has just been handled by a runtime
\* that is Running in a newer generation
C1_Witness ==
  /\ lastEvent.type = "ServeFailed"
  /\ lastEvent.roundNum < lastEvent.round
  /\ roundNum = lastEvent.round
  /\ state = stateRunning

\* C2: at most one listener of the runtime is open, and an open listener is
\* the HTTP/3 server if and only if the current spec has HTTP3 set.
C2_OneListenerSelectedBySpec ==
  /\ Cardinality(openListeners) <= 1
  /\ \A i \in openListeners :
        /\ spec # NilSpec
        /\ (servers[i].kind = "h3") <=> spec.HTTP3

\* C3: once the done channel of a Close event is signaled, no listener of
\* the runtime is open (or about to open) and the mux is closed.
C3_CloseShutsListener ==
  done # {} =>
    /\ \A i \in 1..Len(servers) : servers[i].st \notin {"open", "starting"}
    /\ mux.closed

\* C6: a Reload handled by a runtime that has a spec starts a new server
\* generation if and only if the specs differ outside the six hot fields;
\* otherwise state, roundNum and the servers are untouched and the new spec
\* is in effect in the runtime, the mux and the limit listener.
C6_HotReloadClassification ==
  [][ (/\ fsmHandles("Reload")
       /\ spec # NilSpec
       /\ Head(eventChan).nextSpec # NilSpec)
      => LET nextSpec == Head(eventChan).nextSpec
             restarted == /\ roundNum' = roundNum + 1
                          /\ Len(servers') = Len(servers) + 1
         IN  /\ restarted <=> differOutsideHotFields(spec, nextSpec)
             /\ ~differOutsideHotFields(spec, nextSpec) =>
                  /\ state' = state
                  /\ err' = err
                  /\ roundNum' = roundNum
                  /\ servers' = servers
                  /\ server' = server
                  /\ server3' = server3
                  /\ spec' = nextSpec
                  /\ mux'.superSpec = nextSpec
                  /\ limitListener # NilListener =>
                       /\ limitListener'.gen = limitListener.gen
                       /\ limitListener'.max = nextSpec.MaxConnections
    ]_vars

\* a Running runtime has just handled a Reload that differs from its spec in
\* hot fields only, and kept its generation
C6_Witness ==
  /\ lastEvent.type = "Reload"
  /\ lastEvent.hadSpec
  /\ ~lastEvent.restart
  /\ roundNum = lastEvent.round
  /\ state = stateRunning
  /\ spec.Rules = "R2"
  /\ mux.superSpec = spec
  /\ openListeners # {}

\* C7: no listener of an older generation is open while the listener of a
\* newer generation is open.
C7_OldClosedBeforeNewOpen ==
  \A i, j \in 1..Len(servers) :
     (i < j /\ listenerOpen(servers[j])) => ~listenerOpen(servers[i])

\* C8: the state becomes Closed only in the step that handles a Close event.
C8_ClosedOnlyByClose ==
  [][ (state # stateClosed /\ state' = stateClosed) => fsmHandles("Close")
    ]_vars

\* a CheckFailed has just been handled in state Failed (after a Reload and a
\* ServeFailed or failed listen) and restarted the server; no Close so far
C8_Witness ==
  /\ lastEvent.type = "CheckFailed"
  /\ roundNum = lastEvent.round + 1
  /\ state \in {stateRunning, stateFailed}
  /\ \A c \in Closers : closePc[c] = "idle"

\* C9: once the state is Closed it stays Closed, no server generation is
\* started and no listener opens, whatever events wait or arrive; a ticker
\* that then ticks stops, and a stopped ticker stays stopped.
C9_ClosedIsTerminal ==
  [][ /\ state = stateClosed =>
          /\ state' = stateClosed
          /\ roundNum' = roundNum
          /\ Len(servers') = Len(servers)
          /\ \A i \in 1..Len(servers) :
                listenerOpen(servers'[i]) => listenerOpen(servers[i])
          /\ (tickerPc = "wait" /\ tickerPc' # "wait") =>
                tickerPc' = "stopped"
      /\ tickerPc = "stopped" => tickerPc' = "stopped"
    ]_vars

\* the runtime is Closed, the ticker has stopped, and an event that could
\* have started a server is still waiting in the channel
C9_Witness ==
  /\ state = stateClosed
  /\ tickerPc = "stopped"
  /\ \E k \in 1..Len(eventChan) : eventChan[k].type \in {"Reload", "CheckFailed"}

\* C10: a runtime that is Failed in generation n is eventually restarted
\* (a later generation) unless it is closed; the restart by CheckFailed
\* leaves it Running without error or Failed with an error, and a
\* ServeFailed of the current generation leaves it Failed with an error.
C10_FailedIsRetried ==
  /\ \A n \in 0..(MaxRound - 1) :
        (state = stateFailed /\ roundNum = n)
           ~> (roundNum > n \/ state = stateClosed)
  /\ [][ (fsmHandles("CheckFailed") /\ state = stateFailed) =>
            /\ roundNum' = roundNum + 1
            /\ Len(servers') = Len(servers) + 1
            /\ \/ state' = stateRunning /\ err' = errNil
               \/ state' = stateFailed /\ err' # errNil ]_vars
  /\ [][ (fsmHandles("ServeFailed") /\ Head(eventChan).roundNum = roundNum)
            => state' = stateFailed /\ err' # errNil ]_vars

\* a CheckFailed has just been handled in state Failed and the listen
\* failed again: Failed with the error of the new generation
C10_Witness ==
  /\ lastEvent.type = "CheckFailed"
  /\ roundNum = lastEvent.round + 1
  /\ state = stateFailed
  /\ err = errMsg("listen", roundNum)

(***************************************************************************)
(* Properties of the gateway cluster.                                      *)
(***************************************************************************)
\* C4: when recordResp returns because its loop ended, without shutdown,
\* every expected node has a non-nil entry or the response stream was closed.
C4_ScatterGatherCoverage ==
  (rrPc = "done" /\ ~stopChanClosed) =>
     \/ \A n \in DOMAIN book : book[n] # NilBytes
     \/ futureClosed

\* C5: stop calls shut the cluster down exactly once: stopChan is closed at
\* most once, no call panics, and a call that finds the cluster already shut
\* down returns "already stopped".
C5_StopIsIdempotent ==
  /\ stopChanCloses <= 1
  /\ ~gcPanicked
  /\ \A k \in 1..Len(stopLog) :
        stopLog[k].stopChanClosed => stopLog[k].result = "already stopped"


(***************************************************************************)
(* Properties of Status().                                                 *)
(***************************************************************************)
\* C11: every result of Status() is coherent: its Health is empty when its
\* State is Running, and otherwise its Health is the message of the most
\* recent listen or serve error (the most recent when the call began or when
\* it returned), empty only if no error has occurred.
C11_StatusIsCoherent ==
  statusPc = "returned" =>
    /\ statusOut.State = stateRunning => statusOut.Health = errNil
    /\ statusOut.State # stateRunning =>
         statusOut.Health \in {statusOut.raised, lastErr}


(***************************************************************************)
(* Properties of the dispatcher.                                           *)
(***************************************************************************)
\* the modes that accept a message type (spec: "Accepted by")
acceptedBy(b) ==
  IF b \in {"operationMessage", "retrieveMessage"} THEN {WriteMode}
  ELSE IF b \in {"operationRelayMessage", "retrieveRelayMessage"}
    THEN {ReadMode}
  ELSE IF b \in MessageTypes THEN {WriteMode, ReadMode, NilMode}
  ELSE {}

\* C12: dispatch starts a handler for a RequestEvent if and only if its
\* payload is not empty, it is not Closed and the member's mode is accepted
\* for the message type in the first payload byte; the handler is the one of
\* that message type, and only requests with a handler are responded to.
C12_DispatchAcceptance ==
  /\ \A k \in 1..Len(dispatched) :
        LET event == dispatched[k].event
            accepted == /\ Len(event.RequestPayload) > 0
                        /\ ~event.Closed
                        /\ mode \in acceptedBy(event.RequestPayload[1])
        IN  (dispatched[k].handler # "none") <=> accepted
  /\ \A id \in responded :
        \E k \in 1..Len(dispatched) :
           /\ dispatched[k].event.id = id
           /\ dispatched[k].handler # "none"

\* a Reader has received an Operation, for which it started no handler, and
\* an OperationRelay, whose handler has responded
C12_Witness ==
  /\ mode = ReadMode
  /\ \E j, k \in 1..Len(dispatched) :
        /\ dispatched[j].event.RequestPayload # << >>
        /\ dispatched[j].event.RequestPayload[1] = "operationMessage"
        /\ ~dispatched[j].event.Closed
        /\ dispatched[j].handler = "none"
        /\ dispatched[k].handler = "handleOperationRelay"
        /\ dispatched[k].event.id \in responded


(***************************************************************************)
(* Properties of the response book.                                        *)
(***************************************************************************)
\* the responses received from node n, in order
responsesOf(n) == SelectSeq(respLog, LAMBDA r : r.ResponseNodeName = n)

\* what the book holds for a payload: a nil payload is kept as empty bytes
recorded(payload) == IF payload = NilBytes THEN "" ELSE payload

\* C13: during recordResp the keys of the book never change, an entry is
\* written only while it is nil, and every entry is nil if its node has not
\* responded and otherwise holds the payload of the node's first response.
C13_BookHoldsFirstResponse ==
  /\ [](\A n \in DOMAIN book :
          IF responsesOf(n) = << >>
            THEN book[n] = NilBytes
            ELSE book[n] = recorded(responsesOf(n)[1].Payload))
  /\ [][ /\ DOMAIN book' = DOMAIN book
         /\ \A n \in DOMAIN book :
               book'[n] # book[n] => book[n] = NilBytes ]_vars

\* node A has responded twice with different payloads, the book holds the
\* first, and B's entry is still nil
C13_Witness ==
  /\ DOMAIN book = {"A", "B"}
  /\ Len(responsesOf("A")) = 2
  /\ responsesOf("A")[1].Payload = "p1"
  /\ responsesOf("A")[2].Payload = "p2"
  /\ book["A"] = "p1"
  /\ book["B"] = NilBytes


(***************************************************************************)
(* Properties of the OpLog and of the Reader's sync.                       *)
(***************************************************************************)
\* C14: on a Reader the model's Apply is invoked in strictly ascending seq
\* order, whatever the interleaving of the sync loop with the
\* OperationRelay handlers.
C14_ApplyAscending ==
  \A i, j \in 1..Len(applied) : i < j => applied[i] < applied[j]

\* the smallest n with n * d >= m
ceilDiv(m, d) == (m + d - 1) \div d

\* C15: with a Writer that stays at M and a Reader that started at 0, once
\* ceil(M / OPLogPullMaxCountOnce) successful pulls have been appended the
\* Reader's MaxSeq is M.
C15_ConvergesWithinPulls ==
  (syncPc # "append" /\ pulls >= ceilDiv(writerMaxSeq,
                                         conf.OPLogPullMaxCountOnce))
     => OPLogMaxSeq(oplog) = writerMaxSeq

\* C16: the OpLog holds exactly 1..MaxSeq; an Append returns no error if
\* and only if op.seq = MaxSeq+1, then MaxSeq has grown by one and equals
\* op.seq, and a rejected Append leaves the log as it was.
C16_AppendKeepsDensePrefix ==
  /\ [](oplog = 1..OPLogMaxSeq(oplog))
  /\ [][ Len(appendLog') = Len(appendLog) + 1 =>
           LET call == appendLog'[Len(appendLog')] IN
             /\ (call.err = "nil") <=> (call.seq = OPLogMaxSeq(oplog) + 1)
             /\ call.err = "nil" =>
                  /\ OPLogMaxSeq(oplog') = OPLogMaxSeq(oplog) + 1
                  /\ OPLogMaxSeq(oplog') = call.seq
                  /\ oplog' = oplog \cup {call.seq}
             /\ call.err # "nil" => oplog' = oplog
             /\ call.err = "ErrDuplicate" <=> call.seq <= OPLogMaxSeq(oplog)
             /\ call.err = "ErrSeqGap" <=> call.seq > OPLogMaxSeq(oplog) + 1
       ]_vars

\* an Append with a gap and a duplicate Append have been rejected and an
\* Append in between has succeeded; the log holds 1..1
C16_Witness ==
  /\ Len(appendLog) = 3
  /\ appendLog[1].err = "ErrSeqGap"
  /\ appendLog[2].err = "nil"
  /\ appendLog[3].err = "ErrDuplicate"
  /\ oplog = {1}


(***************************************************************************)
(* Properties of the construction of the cluster.                          *)
(***************************************************************************)
\* the configuration is valid (design: Configuration, Cluster)
validConf(c) ==
  /\ c.ClusterGroup # ""
  /\ c.ClusterMemberMode \in {WriteMode, ReadMode}
  /\ c.OPLogMaxSeqGapToPull > 0
  /\ c.OPLogPullMaxCountOnce > 0
  /\ c.OPLogPullInterval > 0
  /\ c.OPLogPullTimeout >= 10

\* C17: a call of NewGatewayCluster with a configuration that is not valid
\* returns an error and starts neither the dispatcher nor the sync loop.
C17_InvalidConfRefused ==
  (created.returned /\ ~validConf(conf)) =>
     /\ created.err # "nil"
     /\ ~created.dispatch
     /\ ~created.syncOpLogLoop

\* the address is a loopback address or the unspecified address
loopbackOrUnspecified(a) ==
  a \in {"127.0.0.1", "127.0.0.2", "::1", "localhost", "0.0.0.0", "::"}

\* C18: a call of NewGatewayCluster with a loopback or unspecified
\* advertise address returns an error and starts nothing.
C18_UnreachableAdvertiseRefused ==
  (created.returned /\ loopbackOrUnspecified(advertise)) =>
     /\ created.err # "nil"
     /\ ~created.dispatch


(***************************************************************************)
(* Properties of the membership queries.                                   *)
(***************************************************************************)
\* the member list without the members that are not Alive
aliveOnly(ms) == SelectSeq(ms, LAMBDA member : member.Status = MemberAlive)

\* the groups that have at least one Alive member
aliveGroups == { members[i].group : i \in
                   { j \in 1..Len(members) :
                        members[j].Status = MemberAlive } }

\* C19: the result of every membership query is the result it has on the
\* Alive members alone, and groupsInCluster returns exactly the groups that
\* have an Alive member, in ascending order.
C19_QueriesUseAliveOnly ==
  /\ answer.query = "writerInGroup" =>
       answer.result = writerInGroup(aliveOnly(members), answer.group)
  /\ answer.query = "choosePeerForGroup" =>
       answer.result = choosePeerForGroup(aliveOnly(members), answer.group)
  /\ answer.query = "writerInEveryGroup" =>
       answer.result = writerInEveryGroup(aliveOnly(members))
  /\ answer.query = "aliveNodesInCluster" =>
       answer.result = aliveNodesInCluster(aliveOnly(members), answer.mode,
                                           answer.group)
  /\ answer.query = "RestAliveMembersInSameGroup" =>
       \A i \in 1..Len(answer.result) :
          answer.result[i].Status = MemberAlive
  /\ answer.query = "groupsInCluster" =>
       /\ { answer.result[i] : i \in 1..Len(answer.result) } = aliveGroups
       /\ \A i, j \in 1..Len(answer.result) :
             i < j => rank(answer.result[i]) < rank(answer.result[j])
  /\ answer.query = "groupExistInCluster" =>
       (answer.result <=> answer.group \in aliveGroups)

\* C20: when group g has two Alive members of mode Write, writerInGroup(g)
\* and choosePeerForGroup(g) return the first of them in member-list order,
\* writerInEveryGroup returns the first of them for g, and a warning has
\* been logged.
C20_TwoWritersFirstWins ==
  \A g \in Groups :
     Cardinality(aliveWriters(members, g)) >= 2 =>
       LET w == members[first(aliveWriters(members, g))].NodeName IN
         /\ (answer.query \in {"writerInGroup", "choosePeerForGroup"}
             /\ answer.group = g)
               => /\ answer.result.node = w
                  /\ answer.warned
         /\ (answer.query = "writerInEveryGroup"
             /\ answer.result.err = "nil")
               => /\ \A i \in aliveWriters(members, g) :
                        members[i].NodeName \in answer.result.nodes
                           => members[i].NodeName = w
                  /\ answer.warned


(***************************************************************************)
(* Properties of the generation counter and of stale CheckFailed events.   *)
(***************************************************************************)
\* the step is the fsm handling an event that (re)starts the server: the
\* first Reload with a spec, a Reload that forces a restart, or a CheckFailed
\* met in state Failed
startsServer ==
  \/ /\ fsmHandles("Reload")
     /\ Head(eventChan).nextSpec # NilSpec
     /\ \/ spec = NilSpec
        \/ differOutsideHotFields(spec, Head(eventChan).nextSpec)
  \/ /\ fsmHandles("CheckFailed")
     /\ state = stateFailed

\* C23: roundNum never decreases; it grows by exactly one in every step
\* that (re)starts the server, whether the listen of that start succeeds or
\* fails, and every other step (hot Reload, ServeFailed, Close, CheckFailed
\* outside Failed, the senders, the ticker) leaves it unchanged.
C23_RoundNumCountsStarts ==
  [][ /\ roundNum' >= roundNum
      /\ startsServer => roundNum' = roundNum + 1
      /\ ~startsServer => roundNum' = roundNum ]_vars

\* the second generation was started and its listen failed
C23_Witness ==
  /\ roundNum = 2
  /\ Len(servers) = 2
  /\ servers[2].st = "nolisten"
  /\ state = stateFailed
  /\ err = errMsg("listen", 2)

\* C27: handling a CheckFailed when the state is not Failed changes nothing:
\* no server is started, and state, error, roundNum, the servers, the limit
\* listener, the spec and the mux are as before.
C27_StaleCheckFailedIsNoOp ==
  [][ (fsmHandles("CheckFailed") /\ state # stateFailed)
        => UNCHANGED << state, err, roundNum, server, server3, servers,
                        limitListener, spec, mux, fsmPc >> ]_vars

\* a CheckFailed enqueued while Failed was handled after a Reload had
\* restarted the server: the runtime is Running in the generation the event
\* met, and an earlier generation failed
C27_Witness ==
  /\ lastEvent.type = "CheckFailed"
  /\ lastEvent.round = roundNum
  /\ state = stateRunning
  /\ err = errNil
  /\ \E i \in 1..Len(servers) :
        i < roundNum /\ servers[i].st \in {"nolisten", "failed"}

(***************************************************************************)
(* Properties of the cluster's shutdown.                                   *)
(***************************************************************************)
\* C25: stopChan is closed at most once: no step executes close(gc.stopChan)
\* on a stopChan that is closed already, whatever stop calls were made
\* before and whatever they returned.
C25_StopChanClosedOnce ==
  [][ stopChanClosed => stopChanCloses' = stopChanCloses ]_vars

(***************************************************************************)
(* Properties of runtime.Close.                                            *)
(***************************************************************************)
\* C26: every call of Close() eventually returns: a caller that waits on
\* its done channel has been signalled or the fsm goroutine is still there
\* to receive its Close event (no caller waits for a signal nobody can give).
C26_EveryCloseReturns ==
  \A c \in CloseCallers :
     closePc[c] = "wait" => (c \in done \/ fsmPc = "running")
\* C24: once stopChan is closed, the dispatch loop and the running
\* recordResp eventually return (unless a panic has ended the process),
\* although member events keep arriving and responses are still delivered.
C24_LoopsReturnAfterStop ==
  stopChanClosed ~>
     (gcPanicked \/ (dispatchPc = "stopped" /\ rrPc \in {"stopped", "done"}))

\* both loops have left through their stopChan case while an event was
\* waiting in the stream and the book was not complete
C24_Witness ==
  /\ stopChanClosed
  /\ ~gcPanicked
  /\ dispatchPc = "stopped"
  /\ rrPc = "stopped"
  /\ eventStream # << >>
  /\ memberRespCount < Cardinality(DOMAIN book)

(***************************************************************************)
(* Properties of the DurationSampler.                                      *)
(***************************************************************************)
\* the number of samples of the population pop that are at most v
samplesUpTo(pop, v) == sumSlotsOf(pop, { d \in DOMAIN pop : d <= v })

\* the p-th percentile of pop (p = pm thousandths): the least sample v such
\* that the samples up to v are at least the fraction p of the population
truePercentile(pop, pm) ==
  LET n == samplesUpTo(pop, 2147483647)
      enough(v) == samplesUpTo(pop, v) * 1000 >= pm * n
  IN  CHOOSE v \in DOMAIN pop :
        enough(v) /\ \A w \in DOMAIN pop : w < v => ~enough(w)

\* the end of the segment table (257 s)
tableEnd == tableEndOf(Len(segments))

\* the resolution of the segment that contains the duration v < tableEnd
RECURSIVE resolutionFrom(_, _)
resolutionFrom(k, v) ==
  IF v < segments[k].resolution * segments[k].slots
    THEN segments[k].resolution
    ELSE resolutionFrom(k + 1, v - segments[k].resolution * segments[k].slots)

resolutionAt(v) == resolutionFrom(1, v)

\* C21: for a non-empty population, every percentile Percentiles() reports
\* is within one resolution (that of the segment of the true percentile v)
\* of v when v is inside the segment table, and is the value 9999999 when
\* v is beyond the table.
C21_PercentilesWithinResolution ==
  (reported # << >> /\ DOMAIN population # {}) =>
     \A pi \in 1..Len(percentiles) :
        LET v == truePercentile(population, percentiles[pi])
        IN  IF v < tableEnd
              THEN /\ reported[pi] # beyondTable
                   /\ reported[pi] * Millisecond - v <= resolutionAt(v)
                   /\ v - reported[pi] * Millisecond <= resolutionAt(v)
              ELSE reported[pi] = beyondTable

\* the callers of Update that have returned
returned == { c \in Updaters : updaters[c].pc = "done" }

\* C22: when no Update call is in progress, count is the number of calls
\* that have returned, every slot holds the number of those calls whose
\* duration has that slot as its bucket index, and nothing else was counted.
C22_NoLostUpdate ==
  (\A c \in Updaters : updaters[c].pc \in {"idle", "done"}) =>
     /\ count = Cardinality(returned)
     /\ \A c \in returned : bucketIndex(updaters[c].d) \in DOMAIN durations
     /\ \A i \in DOMAIN durations :
           durations[i] =
             Cardinality({ c \in returned : bucketIndex(updaters[c].d) = i })
     /\ sumSlotsOf(durations, DOMAIN durations) = Cardinality(returned)

\* every caller has returned from a call that overlapped with the calls of
\* the others in any way, and two of them counted in the same slot
C22_Witness ==
  /\ \A c \in Updaters : updaters[c].pc = "done"
  /\ \E c1, c2 \in Updaters :
        /\ c1 # c2
        /\ updaters[c1].d # updaters[c2].d
        /\ updaters[c1].idx = updaters[c2].idx
        /\ durations[updaters[c1].idx] >= 2

\* C28: the bucket index of every recorded duration is inside ds.durations,
\* that is in 0 .. (1 + sum of slots) - 1; a duration beyond the table is
\* counted in the last slot; and Percentiles() reports no value of that
\* slot: every value is the duration of a slot of the table or 9999999.
C28_IndexInsideArray ==
  /\ ~indexPanic
  /\ DOMAIN durations \subseteq 0..((1 + sumSlots(Len(segments))) - 1)
  /\ \A d \in DOMAIN population :
        /\ bucketIndex(d) \in DOMAIN durations
        /\ d >= tableEnd => bucketIndex(d) = sumSlots(Len(segments))
  /\ reported # << >> =>
        \A pi \in 1..Len(percentiles) :
           \/ reported[pi] = beyondTable
           \/ /\ reported[pi] * Millisecond < tableEnd
              /\ \E i \in DOMAIN durations :
                    /\ i < sumSlots(Len(segments))
                    /\ reported[pi] * Millisecond = slotDuration(1, i, 0)

\* a duration just below the end of the first segment and one beyond the
\* table were recorded, the latter in the last slot, and Percentiles()
\* reported the former as 500 ms and the top percentiles as 9999999
C28_Witness ==
  /\ 499500 \in DOMAIN population
  /\ \E d \in DOMAIN population : d >= tableEnd
  /\ slotAt(durations, lenDurations - 1) >= 1
  /\ reported # << >>
  /\ reported[1] = 500
  /\ reported[Len(percentiles)] = beyondTable

=============================================================================
